---------------------------- MODULE Spec2Model ----------------------------
(***************************************************************************)
(* The aggregator of slashr/homelab-map (src/aggregator/main.py): the      *)
(* in-memory registry of node reports (nodes_data), the per-source link    *)
(* samples (connections_data) and the quote cache (quote_cache), with the  *)
(* HTTP handlers that read and write them.                                 *)
(*                                                                         *)
(* Conventions.                                                            *)
(*  - A Python dict is a function whose DOMAIN is the set of its keys;     *)
(*    connections_data, whose iteration order the handlers depend on, is a *)
(*    sequence of [key, value] entries in insertion order.                 *)
(*  - An Optional value is <<>> (None) or <<v>> (the value v).             *)
(*  - Times are whole seconds. Float-typed telemetry (percentages,         *)
(*    temperature, load, uptime, latency, coordinates) is held in tenths:  *)
(*    515 is 51.5.                                                         *)
(*  - TLC cannot take a string apart, so Characters spells each node name  *)
(*    out; the quote handler's split('-') and lower() are computed on the  *)
(*    spelling.                                                            *)
(*  - The handlers are coroutines on one event loop: a handler runs        *)
(*    without interleaving up to an await that suspends. Only the call of  *)
(*    the generation provider inside get_node_quote suspends.              *)
(*  - NodeData fields that no handler reads (os_image, kernel_version,     *)
(*    swap counters, ...) are copied by model_dump like the telemetry      *)
(*    fields kept here and are left out.                                   *)
(***************************************************************************)
EXTENDS Integers, Sequences, FiniteSets, TLC

VARIABLES
    now,              \* time.time(), in seconds
    ticks,            \* how many times the clock has been advanced
    NODE_TIMEOUT,     \* _load_node_timeout()
    CLEANUP_GRACE_PERIOD, \* _load_cleanup_grace_period()
    MAX_CONNECTIONS,  \* _load_max_connections()
    DEDUP_CONNECTIONS, \* _load_bool_env(DEDUP_CONNECTIONS_ENV_VAR, ...)
    INTERACTIVE_PASSWORD, \* the configured shared secret, None when unset
    openai_client,    \* TRUE iff the AsyncOpenAI client was created at import
    nodes_data,       \* node name -> stored node dict
    connections_data, \* ordered dict: source node -> list of Connection
    quote_cache,      \* node name -> QuoteCache
    pending,          \* get_node_quote coroutines suspended in the provider call
    last              \* the most recent request and its response

config == <<NODE_TIMEOUT, CLEANUP_GRACE_PERIOD, MAX_CONNECTIONS,
            DEDUP_CONNECTIONS, INTERACTIVE_PASSWORD, openai_client>>

vars == <<now, ticks, config, nodes_data, connections_data, quote_cache,
          pending, last>>

store == <<nodes_data, connections_data, quote_cache>>

(***************************************************************************)
(* Bounds of the model.                                                    *)
(***************************************************************************)
MaxTicks == 2
MaxPending == 1

(***************************************************************************)
(* Program constants.                                                      *)
(***************************************************************************)
DEFAULT_NODE_TIMEOUT_SECONDS == 120
DEFAULT_CLEANUP_GRACE_PERIOD_SECONDS == 86400
QUOTE_CACHE_TTL_SECONDS == 86400
DEFAULT_MAX_CONNECTIONS == 500
DEFAULT_DEDUP_CONNECTIONS == TRUE

(***************************************************************************)
(* Optional values and Python truthiness.                                  *)
(***************************************************************************)
None == <<>>
Some(v) == <<v>>
IsNone(x) == x = <<>>
\* bool(x) for an Optional number: None and 0 are falsy
TruthyNum(x) == x # <<>> /\ x[1] # 0
\* bool(x) for an Optional string: None and "" are falsy
TruthyStr(x) == x # <<>> /\ x[1] # ""
\* x or 0
OrZero(x) == IF TruthyNum(x) THEN x[1] ELSE 0
\* int(a / b) for b > 0: truncation toward zero
TruncDiv(a, b) == IF a >= 0 THEN a \div b ELSE -((-a) \div b)

(***************************************************************************)
(* Dicts.                                                                  *)
(***************************************************************************)
DictSet(d, k, v) == [x \in DOMAIN d \cup {k} |-> IF x = k THEN v ELSE d[x]]
DictDel(d, k) == [x \in DOMAIN d \ {k} |-> d[x]]

\* Ordered dict: a sequence of [key |-> k, value |-> v] without repeated keys.
OKeys(od) == {od[i].key : i \in 1..Len(od)}
OIndex(od, k) == CHOOSE i \in 1..Len(od) : od[i].key = k
OGet(od, k) == od[OIndex(od, k)].value
\* od[k] = v: an existing key keeps its place, a new key goes last
OSet(od, k, v) ==
    IF k \in OKeys(od)
    THEN [od EXCEPT ![OIndex(od, k)] = [key |-> k, value |-> v]]
    ELSE Append(od, [key |-> k, value |-> v])
\* od.pop(k, None)
OPop(od, k) == SelectSeq(od, LAMBDA e : e.key # k)

(***************************************************************************)
(* Node names. Jim and Pam report; Roy is only ever named as the target of *)
(* a link sample.                                                          *)
(***************************************************************************)
Jim == "Jim-1"
Pam == "pam"
Roy == "roy-2"
Characters ==
    (Jim :> <<"J", "i", "m", "-", "1">>) @@
    (Pam :> <<"p", "a", "m">>) @@
    (Roy :> <<"r", "o", "y", "-", "2">>)
Names == {Jim, Pam}
Targets == Names \cup {Roy}
OtherName(n) == IF n = Jim THEN Pam ELSE Jim

(***************************************************************************)
(* class Connection: one link sample. target_ip, min_ms and max_ms are     *)
(* carried along unread and are left out.                                  *)
(***************************************************************************)
Connection(t, l) == [target_node |-> t, latency_ms |-> l]

(***************************************************************************)
(* class NodeData: the body of POST /api/nodes, in three groups of fields. *)
(***************************************************************************)
Identity(h, ip, k) == [hostname |-> h, internal_ip |-> ip, kubelet_version |-> k]
Geo(la, lo, loc, src, prov) ==
    [lat |-> la, lon |-> lo, location |-> loc, location_source |-> src,
     provider |-> prov]
Telemetry(cpu, mem, disk, tx, rx, temp, up, load) ==
    [cpu_percent |-> cpu, memory_percent |-> mem, disk_percent |-> disk,
     network_tx_bytes_per_sec |-> tx, network_rx_bytes_per_sec |-> rx,
     cpu_temp_celsius |-> temp, uptime_seconds |-> up, load_avg_1m |-> load]

IdentityFields == {"hostname", "internal_ip", "kubelet_version"}
GeoFields == {"lat", "lon", "location", "location_source"}
TelemetryFields ==
    {"cpu_percent", "memory_percent", "disk_percent",
     "network_tx_bytes_per_sec", "network_rx_bytes_per_sec",
     "cpu_temp_celsius", "uptime_seconds", "load_avg_1m"}

\* Record union: the fields of a and of b (disjoint).
Merge(a, b) ==
    [f \in DOMAIN a \cup DOMAIN b |-> IF f \in DOMAIN a THEN a[f] ELSE b[f]]

NodeData(name, id, geo, tel, ts, conns) ==
    Merge(Merge(Merge(id, geo), tel),
          [name |-> name, timestamp |-> ts, connections |-> conns])

(***************************************************************************)
(* The most recent request: the handler, the node named in the path or the *)
(* body, the HTTP status, the request body and the response body; for      *)
(* GET /api/nodes also the nodes its cleanup logged as removed.            *)
(***************************************************************************)
\* What is logged as the name when the request names no node
Unnamed == "*"

Event(op, name, code, request, body) ==
    [op |-> op, name |-> name, code |-> code, request |-> request,
     body |-> body, cleaned_up |-> {}]
\* logger.info(f"Cleaned up stale node: {node_name}"), line 246
Logged(event, removed) == [event EXCEPT !.cleaned_up = removed]

(***************************************************************************)
(* POST /api/nodes                                                         *)
(***************************************************************************)
\* node.model_dump() without its 'connections' key. The stored dict carries
\* a copy of the submitted list under that key, which only GET
\* /api/nodes/{name} gives back; the link samples that GET /api/connections
\* and the eviction work on are those of connections_data.
model_dump(node) == [f \in DOMAIN node \ {"connections"} |-> node[f]]

\* Lines 387-394 without the tests that both values are there
is_replacement_on_any_change(existing_node, node_dict) ==
    \/ existing_node.internal_ip # node_dict.internal_ip
    \/ existing_node.hostname # node_dict.hostname
    \/ existing_node.kubelet_version # node_dict.kubelet_version

\* Lines 387-394: the three identity comparisons
is_replacement(existing_node, node_dict) ==
    LET existing_ip == existing_node.internal_ip
        existing_hostname == existing_node.hostname
        existing_kubelet == existing_node.kubelet_version
        new_ip == node_dict.internal_ip
        new_hostname == node_dict.hostname
        new_kubelet == node_dict.kubelet_version
    IN  IF TruthyStr(existing_ip) /\ TruthyStr(new_ip) /\ existing_ip # new_ip
        THEN TRUE
        ELSE IF existing_hostname # "" /\ new_hostname # ""
                /\ existing_hostname # new_hostname
        THEN TRUE
        ELSE IF TruthyStr(existing_kubelet) /\ TruthyStr(new_kubelet)
                /\ existing_kubelet # new_kubelet
        THEN TRUE
        ELSE FALSE

\* Lines 402-408: location data kept from the node that was replaced
preserve_location(existing_node, node_dict) ==
    LET d1 == IF TruthyNum(existing_node.lat) /\ ~TruthyNum(node_dict.lat)
              THEN [node_dict EXCEPT !.lat = existing_node.lat]
              ELSE node_dict
        d2 == IF TruthyNum(existing_node.lon) /\ ~TruthyNum(d1.lon)
              THEN [d1 EXCEPT !.lon = existing_node.lon]
              ELSE d1
        d3 == IF TruthyStr(existing_node.location) /\ ~TruthyStr(d2.location)
              THEN [d2 EXCEPT !.location = existing_node.location]
              ELSE d2
    IN  d3

\* Line 374 with the reporter's timestamp taken for the registry's own
stamp_with_reporter_time(node_dict, t) ==
    Merge(node_dict, [received_at |-> node_dict.timestamp])

\* Line 374: the registry's own stamp
stamp_received_at(node_dict, t) ==
    Merge(node_dict, [received_at |-> t])

\* Lines 373-408 as a dict.update(): telemetry that the new report leaves
\* unset is kept from the stored one
node_dict_updated(node) ==
    LET node_dict == stamp_received_at(model_dump(node), now)
    IN  IF node.name \in DOMAIN nodes_data
        THEN [f \in DOMAIN node_dict |->
                 IF f \in TelemetryFields /\ node_dict[f] = None
                 THEN nodes_data[node.name][f]
                 ELSE node_dict[f]]
        ELSE node_dict

\* Lines 373-408: the dict that is stored for the report
node_dict_for(node) ==
    LET node_dict == stamp_received_at(model_dump(node), now)
    IN  IF node.name \in DOMAIN nodes_data
           /\ is_replacement(nodes_data[node.name], node_dict)
        THEN preserve_location(nodes_data[node.name], node_dict)
        ELSE node_dict

\* Lines 413-418 with the new samples added to the stored ones
store_connections_merged(node) ==
    IF node.connections # None /\ node.connections[1] # <<>>
    THEN OSet(connections_data, node.name,
              (IF node.name \in OKeys(connections_data)
               THEN OGet(connections_data, node.name) ELSE <<>>)
              \o node.connections[1])
    ELSE connections_data

\* Lines 413-418 with `is not None` for the truth test: an empty list is
\* stored like any other
store_connections_as_sent(node) ==
    IF node.connections # None
    THEN OSet(connections_data, node.name, node.connections[1])
    ELSE connections_data

\* Lines 413-418: `if node.connections:` is false for None and for []
store_connections(node) ==
    IF node.connections # None /\ node.connections[1] # <<>>
    THEN OSet(connections_data, node.name, node.connections[1])
    ELSE connections_data

\* Lines 369-428 with the cached quote dropped when a replacement is detected
receive_node_data_dropping_quote(node) ==
    /\ nodes_data' = DictSet(nodes_data, node.name, node_dict_for(node))
    /\ connections_data' = store_connections(node)
    /\ quote_cache' =
           IF /\ node.name \in DOMAIN nodes_data
              /\ is_replacement(nodes_data[node.name], model_dump(node))
           THEN DictDel(quote_cache, node.name)
           ELSE quote_cache
    /\ last' = Event("receive_node_data", node.name, 200, node,
                      [status |-> "success"])
    /\ UNCHANGED <<now, ticks, config, pending>>

\* Lines 369-428 with the write of the link samples left to a later step
receive_node_data_report_only(node) ==
    /\ nodes_data' = DictSet(nodes_data, node.name, node_dict_for(node))
    /\ last' = Event("receive_node_data", node.name, 200, node,
                      [status |-> "success"])
    /\ UNCHANGED <<now, ticks, config, connections_data, quote_cache, pending>>

receive_node_data(node) ==
    /\ nodes_data' = DictSet(nodes_data, node.name, node_dict_for(node))
    /\ connections_data' = store_connections(node)
    /\ last' = Event("receive_node_data", node.name, 200, node,
                      [status |-> "success"])
    /\ UNCHANGED <<now, ticks, config, quote_cache, pending>>

\* Lines 261-263 and 370: the body is parsed as NodeData before the handler
\* runs. 'name' and 'hostname' are required and any str is taken for them,
\* every other field has a default. A body that fails is answered 422.
RequiredFields == {"name", "hostname"}

post_api_nodes(body) ==
    IF RequiredFields \subseteq DOMAIN body
    THEN receive_node_data(body)
    ELSE /\ last' = Event("receive_node_data",
                          IF "name" \in DOMAIN body THEN body.name ELSE Unnamed,
                          422, body, None)
         /\ UNCHANGED <<now, ticks, config, store, pending>>

(***************************************************************************)
(* _cleanup_stale_nodes                                                    *)
(***************************************************************************)
\* The reporter's own timestamp taken for the time the node was last seen
last_seen_of_reporter(node_data) == node_data.timestamp

\* node_data.get('received_at', node_data.get('timestamp', 0))
last_seen_of(node_data) ==
    IF "received_at" \in DOMAIN node_data THEN node_data.received_at
    ELSE IF "timestamp" \in DOMAIN node_data THEN node_data.timestamp
    ELSE 0

\* Lines 211-218 with `<=` for `<`
is_stale_at_cutoff(node_data, current_time) ==
    LET cutoff_time == current_time - (NODE_TIMEOUT + CLEANUP_GRACE_PERIOD)
    IN  last_seen_of(node_data) <= cutoff_time

\* Lines 211-218
is_stale(node_data, current_time) ==
    LET cutoff_time == current_time - (NODE_TIMEOUT + CLEANUP_GRACE_PERIOD)
    IN  last_seen_of(node_data) < cutoff_time

nodes_to_remove == {n \in DOMAIN nodes_data : is_stale(nodes_data[n], now)}

\* Lines 227-239: the samples of one list that do not point at node_name
filtered_connections(connections, node_name) ==
    SelectSeq(connections, LAMBDA conn : conn.target_node # node_name)

\* Lines 222-245 for one removed node: its own list goes, every other list
\* loses the samples that point at it, and a list left empty goes as well.
RECURSIVE filter_sources(_, _)
filter_sources(od, node_name) ==
    IF od = <<>> THEN <<>>
    ELSE LET kept == filtered_connections(Head(od).value, node_name)
             rest == filter_sources(Tail(od), node_name)
         IN  IF kept # <<>>
             THEN <<[key |-> Head(od).key, value |-> kept]>> \o rest
             ELSE rest

\* Lines 222-245 without the scan of the other sources
drop_own_links(od, node_name) == OPop(od, node_name)

drop_node_links(od, node_name) == filter_sources(OPop(od, node_name), node_name)

\* Lines 220-246 over all of nodes_to_remove. The removals commute, so the
\* order in which the loop takes them does not show in the result.
RECURSIVE cleanup_connections(_, _)
cleanup_connections(od, removed) ==
    IF removed = {} THEN od
    ELSE LET node_name == CHOOSE n \in removed : TRUE
         IN  cleanup_connections(drop_node_links(od, node_name),
                                 removed \ {node_name})

\* get_all_nodes without the call of _cleanup_stale_nodes at line 435
uncleaned_nodes == nodes_data

cleaned_nodes == [n \in DOMAIN nodes_data \ nodes_to_remove |-> nodes_data[n]]
cleaned_connections == cleanup_connections(connections_data, nodes_to_remove)
\* Line 223 left out: the quotes of removed nodes stay cached
uncleaned_quotes == quote_cache

cleaned_quotes == [n \in DOMAIN quote_cache \ nodes_to_remove |-> quote_cache[n]]

(***************************************************************************)
(* GET /api/nodes                                                          *)
(***************************************************************************)
\* Lines 445-451 with `<=` for `<` in both tests
node_status_through(time_diff) ==
    IF time_diff <= 60 THEN "online"
    ELSE IF time_diff <= NODE_TIMEOUT THEN "warning"
    ELSE "offline"

\* Lines 445-451
node_status(time_diff) ==
    IF time_diff < 60 THEN "online"
    ELSE IF time_diff < NODE_TIMEOUT THEN "warning"
    ELSE "offline"

\* Lines 453-459 with round() for int()
format_last_seen_rounded(time_diff) ==
    IF time_diff < 60 THEN <<time_diff, "s ago">>
    ELSE IF time_diff < 3600 THEN <<(time_diff + 30) \div 60, "m ago">>
    ELSE <<(time_diff + 1800) \div 3600, "h ago">>

\* Lines 453-459: f"{int(time_diff)}s ago" and so on, as <<number, suffix>>
format_last_seen(time_diff) ==
    IF time_diff < 60 THEN <<TruncDiv(time_diff, 1), "s ago">>
    ELSE IF time_diff < 3600 THEN <<TruncDiv(time_diff, 60), "m ago">>
    ELSE <<TruncDiv(time_diff, 3600), "h ago">>

\* The fields of class NodeStatus that are read from the stored dict
NodeStatusFields ==
    {"name", "hostname", "internal_ip", "lat", "lon", "location", "provider",
     "kubelet_version"} \cup TelemetryFields

\* Lines 441-499 for one node
NodeStatus(node_data, current_time) ==
    LET last_seen_timestamp == last_seen_of(node_data)
        time_diff == current_time - last_seen_timestamp
    IN  Merge([f \in NodeStatusFields |-> node_data[f]],
              [status |-> node_status(time_diff),
               last_seen_timestamp |-> last_seen_timestamp,
               last_seen |-> format_last_seen(time_diff)])

get_all_nodes ==
    /\ nodes_data' = cleaned_nodes
    /\ connections_data' = cleaned_connections
    /\ quote_cache' = cleaned_quotes
    /\ last' = Logged(Event("get_all_nodes", Unnamed, 200, None,
                            [n \in DOMAIN cleaned_nodes |->
                                NodeStatus(cleaned_nodes[n], now)]),
                      nodes_to_remove)
    /\ UNCHANGED <<now, ticks, config, pending>>

(***************************************************************************)
(* GET /api/nodes/{node_name} and DELETE /api/nodes/{node_name}            *)
(***************************************************************************)
get_node_details(node_name) ==
    /\ last' = IF node_name \notin DOMAIN nodes_data
               THEN Event("get_node_details", node_name, 404, None, None)
               ELSE Event("get_node_details", node_name, 200, None,
                          nodes_data[node_name])
    /\ UNCHANGED <<now, ticks, config, store, pending>>

\* Lines 517-526 without the 404: deleting an unknown name succeeds
remove_node_if_present(node_name) ==
    /\ nodes_data' = [n \in DOMAIN nodes_data \ {node_name} |-> nodes_data[n]]
    /\ last' = Event("remove_node", node_name, 200, None, [status |-> "success"])
    /\ UNCHANGED <<now, ticks, config, connections_data, quote_cache, pending>>

remove_node(node_name) ==
    /\ IF node_name \notin DOMAIN nodes_data
       THEN /\ last' = Event("remove_node", node_name, 404, None, None)
            /\ UNCHANGED nodes_data
       ELSE /\ nodes_data' = DictDel(nodes_data, node_name)
            /\ last' = Event("remove_node", node_name, 200, None,
                             [status |-> "success"])
    /\ UNCHANGED <<now, ticks, config, connections_data, quote_cache, pending>>

(***************************************************************************)
(* GET /api/connections                                                    *)
(***************************************************************************)
\* nodes_data.get(name, {}).get(field)
coordinate(name, field) ==
    IF name \in DOMAIN nodes_data THEN nodes_data[name][field] ELSE None

\* Lines 549-559: one derived link
derived_link(source_node, conn) ==
    [source_node |-> source_node,
     source_lat |-> nodes_data[source_node].lat,
     source_lon |-> nodes_data[source_node].lon,
     target_node |-> conn.target_node,
     target_lat |-> coordinate(conn.target_node, "lat"),
     target_lon |-> coordinate(conn.target_node, "lon"),
     latency_ms |-> conn.latency_ms]

\* Lines 540-559 with the samples dropped whose target has no report
links_to_known_nodes(source_node, connections) ==
    LET known == SelectSeq(connections,
                           LAMBDA conn : conn.target_node \in DOMAIN nodes_data)
    IN  [i \in 1..Len(known) |-> derived_link(source_node, known[i])]

RECURSIVE links_of(_, _)
links_of(source_node, connections) ==
    IF connections = <<>> THEN <<>>
    ELSE <<derived_link(source_node, Head(connections))>>
         \o links_of(source_node, Tail(connections))

\* Lines 536-559: the sources in dict order, a source without a report skipped
RECURSIVE expand_connections(_)
expand_connections(od) ==
    IF od = <<>> THEN <<>>
    ELSE (IF Head(od).key \in DOMAIN nodes_data
          THEN links_of(Head(od).key, Head(od).value)
          ELSE <<>>)
         \o expand_connections(Tail(od))

\* tuple(sorted([source, target])): the unordered pair
pair_key(conn) == {conn.source_node, conn.target_node}

\* Line 566
replaces_existing(conn, existing) == conn.latency_ms < existing.latency_ms

\* Lines 562-568: deduped is a dict, so a pair keeps the place of its first link
RECURSIVE dedup_into(_, _)
dedup_into(deduped, conns) ==
    IF conns = <<>> THEN deduped
    ELSE LET conn == Head(conns)
             key == pair_key(conn)
         IN  dedup_into(
                 IF key \notin OKeys(deduped)
                    \/ replaces_existing(conn, OGet(deduped, key))
                 THEN OSet(deduped, key, conn)
                 ELSE deduped,
                 Tail(conns))

OValues(od) == [i \in 1..Len(od) |-> od[i].value]

\* sorted(..., key=latency_ms): stable, by insertion
RECURSIVE insert_sorted(_, _)
insert_sorted(sorted, conn) ==
    IF sorted = <<>> THEN <<conn>>
    ELSE IF conn.latency_ms < Head(sorted).latency_ms THEN <<conn>> \o sorted
    ELSE <<Head(sorted)>> \o insert_sorted(Tail(sorted), conn)

RECURSIVE sorted_by_latency(_)
sorted_by_latency(conns) ==
    IF conns = <<>> THEN <<>>
    ELSE insert_sorted(sorted_by_latency(SubSeq(conns, 1, Len(conns) - 1)),
                       conns[Len(conns)])

\* Lines 570-573 without the sort: the first MAX_CONNECTIONS links as found
cap_connections_as_found(conns) ==
    IF MAX_CONNECTIONS > 0 /\ Len(conns) > MAX_CONNECTIONS
    THEN SubSeq(conns, 1, MAX_CONNECTIONS)
    ELSE conns

\* Lines 570-573
cap_connections(conns) ==
    IF MAX_CONNECTIONS > 0 /\ Len(conns) > MAX_CONNECTIONS
    THEN SubSeq(sorted_by_latency(conns), 1, MAX_CONNECTIONS)
    ELSE conns

connections_view ==
    LET all_connections == expand_connections(connections_data)
    IN  cap_connections(IF DEDUP_CONNECTIONS
                        THEN OValues(dedup_into(<<>>, all_connections))
                        ELSE all_connections)

get_all_connections ==
    /\ last' = Event("get_all_connections", Unnamed, 200, None, connections_view)
    /\ UNCHANGED <<now, ticks, config, store, pending>>

(***************************************************************************)
(* GET /api/stats                                                          *)
(***************************************************************************)
\* Line 597
counts_as_online(node_data, current_time) ==
    current_time - last_seen_of(node_data) < NODE_TIMEOUT

\* Lines 595-598 without the test of line 597
registered_names == DOMAIN nodes_data

online_names == {n \in DOMAIN nodes_data : counts_as_online(nodes_data[n], now)}

\* Lines 600-609: what one online node adds to a total. The truthiness test
\* of the first three and the `is not None` test of the last two add the same.
contribution(node_data, field) ==
    IF node_data[field] # None THEN node_data[field][1] ELSE 0

RECURSIVE total_of(_, _)
total_of(names, field) ==
    IF names = {} THEN 0
    ELSE LET n == CHOOSE x \in names : TRUE
         IN  contribution(nodes_data[n], field) + total_of(names \ {n}, field)

\* round(a / b) to the nearest whole, ties to even, for a >= 0 and b > 0
round_div(a, b) ==
    LET q == a \div b
        r == a % b
    IN  IF 2 * r < b THEN q
        ELSE IF 2 * r > b THEN q + 1
        ELSE IF q % 2 = 0 THEN q ELSE q + 1

\* Lines 620-624: round(total / online_nodes, 2), in hundredths; totals are in
\* tenths
average(total, online_nodes) ==
    IF online_nodes > 0 THEN round_div(total * 10, online_nodes) ELSE 0

\* Lines 611-612 moved out of the block of line 597
providers_of_registered(names) ==
    [p \in {nodes_data[n].provider : n \in DOMAIN nodes_data} |->
        Cardinality({n \in DOMAIN nodes_data : nodes_data[n].provider = p})]

\* Lines 611-612: node_data.get('provider', 'unknown'); the key is always there
providers_of(names) ==
    [p \in {nodes_data[n].provider : n \in names} |->
        Cardinality({n \in names : nodes_data[n].provider = p})]

\* Lines 620-624 with each total divided by the number of online nodes that
\* reported the metric
reporting(field) == {n \in online_names : nodes_data[n][field] # None}

cluster_stats_of_reporting ==
    LET online_nodes == Cardinality(online_names)
        node_count == Cardinality(DOMAIN nodes_data)
        average_of(field) ==
            average(total_of(online_names, field), Cardinality(reporting(field)))
    IN  [total_nodes |-> node_count,
         online_nodes |-> online_nodes,
         offline_nodes |-> node_count - online_nodes,
         avg_cpu_percent |-> average_of("cpu_percent"),
         avg_memory_percent |-> average_of("memory_percent"),
         avg_disk_percent |-> average_of("disk_percent"),
         avg_network_tx_bytes_per_sec |-> average_of("network_tx_bytes_per_sec"),
         avg_network_rx_bytes_per_sec |-> average_of("network_rx_bytes_per_sec"),
         providers |-> providers_of(online_names),
         total_connections |-> Len(connections_data)]

cluster_stats ==
    LET online_nodes == Cardinality(online_names)
        node_count == Cardinality(DOMAIN nodes_data)
    IN  [total_nodes |-> node_count,
         online_nodes |-> online_nodes,
         offline_nodes |-> node_count - online_nodes,
         avg_cpu_percent |->
             average(total_of(online_names, "cpu_percent"), online_nodes),
         avg_memory_percent |->
             average(total_of(online_names, "memory_percent"), online_nodes),
         avg_disk_percent |->
             average(total_of(online_names, "disk_percent"), online_nodes),
         avg_network_tx_bytes_per_sec |->
             average(total_of(online_names, "network_tx_bytes_per_sec"),
                     online_nodes),
         avg_network_rx_bytes_per_sec |->
             average(total_of(online_names, "network_rx_bytes_per_sec"),
                     online_nodes),
         providers |-> providers_of(online_names),
         total_connections |-> Len(connections_data)]

get_cluster_stats ==
    /\ last' = Event("get_cluster_stats", Unnamed, 200, None, cluster_stats)
    /\ UNCHANGED <<now, ticks, config, store, pending>>

(***************************************************************************)
(* POST /api/quote/{node_name}                                             *)
(***************************************************************************)
FALLBACK_QUOTES ==
    <<"m", "i", "c", "h", "a", "e", "l">> :> "I'm not superstitious, but I am a little stitious." @@
    <<"d", "w", "i", "g", "h", "t">> :> "Identity theft is not a joke, Jim! Millions of families suffer every year!" @@
    <<"j", "i", "m">> :> "Bears. Beets. Battlestar Galactica." @@
    <<"p", "a", "m">> :> "There's a lot of beauty in ordinary things. Isn't that kind of the point?" @@
    <<"a", "n", "g", "e", "l", "a">> :> "I don't have a headache. I'm just preparing." @@
    <<"k", "e", "v", "i", "n">> :> "Why waste time say lot word when few word do trick?" @@
    <<"s", "t", "a", "n", "l", "e", "y">> :> "Did I stutter?" @@
    <<"p", "h", "y", "l", "l", "i", "s">> :> "Close your mouth, sweetie. You look like a trout." @@
    <<"t", "o", "b", "y">> :> "I hate so much about the things that you choose to be." @@
    <<"o", "s", "c", "a", "r">> :> "Actually..." @@
    <<"c", "r", "e", "e", "d">> :> "Nobody steals from Creed Bratton and gets away with it." @@
    <<"m", "e", "r", "e", "d", "i", "t", "h">> :> "It's casual day!" @@
    <<"a", "n", "d", "y">> :> "I'm always thinking one step ahead... like a carpenter that makes stairs." @@
    <<"r", "y", "a", "n">> :> "I'd rather she be alone than with somebody. Is that love?" @@
    <<"k", "e", "l", "l", "y">> :> "I talk a lot, so I've learned to tune myself out."

DEFAULT_FALLBACK_QUOTE == "That's what she said."

UpperCase == <<"A", "B", "C", "D", "E", "F", "G", "H", "I", "J", "K", "L", "M", "N", "O", "P", "Q", "R", "S", "T", "U", "V", "W", "X", "Y", "Z">>
LowerCase == <<"a", "b", "c", "d", "e", "f", "g", "h", "i", "j", "k", "l", "m", "n", "o", "p", "q", "r", "s", "t", "u", "v", "w", "x", "y", "z">>

\* str.lower(), one character
lower_char(c) ==
    IF \E i \in 1..Len(UpperCase) : UpperCase[i] = c
    THEN LowerCase[CHOOSE i \in 1..Len(UpperCase) : UpperCase[i] = c]
    ELSE c

\* node_name.split('-')[0]
RECURSIVE before_dash(_)
before_dash(s) ==
    IF s = <<>> \/ Head(s) = "-" THEN <<>>
    ELSE <<Head(s)>> \o before_dash(Tail(s))

\* Line 766 without .lower()
character_as_written(node_name) == before_dash(Characters[node_name])

\* Line 766
character_of(node_name) ==
    LET head == before_dash(Characters[node_name])
    IN  [i \in 1..Len(head) |-> lower_char(head[i])]

\* FALLBACK_QUOTES.get(character, "That's what she said.")
fallback_quote(character) ==
    IF character \in DOMAIN FALLBACK_QUOTES THEN FALLBACK_QUOTES[character]
    ELSE DEFAULT_FALLBACK_QUOTE

\* f"{load}" for a float that is a whole number of halves, given in tenths
float_str(tenths) ==
    ToString(tenths \div 10) \o "." \o ToString(tenths % 10)

\* Line 646: f"{cpu}:{mem}:{uptime_days}:{temp}:{load}"
metrics_key(cpu, mem, uptime_days, temp, load) ==
    ToString(cpu) \o ":" \o ToString(mem) \o ":" \o ToString(uptime_days)
        \o ":" \o ToString(temp) \o ":" \o float_str(load)

\* hashlib.md5(key.encode()).hexdigest()[:8] of the keys that the reports of
\* this module give rise to
MD5_HEXDIGEST_8 ==
    ("50:70:1:40:1.0" :> "ebc7d208") @@
    ("80:0:0:0:0.0" :> "df5d8417") @@
    ("20:0:0:0:0.0" :> "5666b8b7") @@
    ("50:0:0:0:0.0" :> "b3468e45") @@
    ("60:0:0:0:0.0" :> "be5f16eb") @@
    ("0:0:0:0:0.0" :> "7b01f9c2") @@
    ("50:70:1:40:1.5" :> "41ca73ec") @@
    ("0:0:0:-5:0.0" :> "d732615a") @@
    ("0:80:24:45:3.0" :> "619ac652") @@
    ("100:90:24:45:7.0" :> "619ac652")

\* Line 647
md5_hexdigest_8(key) == MD5_HEXDIGEST_8[key]

\* Lines 639-647. The values are in tenths.
compute_metrics_hash(node_data) ==
    LET cpu == TruncDiv(OrZero(node_data.cpu_percent), 100) * 10
        mem == TruncDiv(OrZero(node_data.memory_percent), 100) * 10
        uptime_days == TruncDiv(OrZero(node_data.uptime_seconds), 864000)
        temp == TruncDiv(OrZero(node_data.cpu_temp_celsius), 50) * 5
        load == TruncDiv(OrZero(node_data.load_avg_1m) * 2, 10) * 5
    IN  md5_hexdigest_8(metrics_key(cpu, mem, uptime_days, temp, load))

QuoteCache(quote, generated_at, metrics_hash) ==
    [quote |-> quote, generated_at |-> generated_at,
     metrics_hash |-> metrics_hash]

QuoteRequest(password, force_new) ==
    [password |-> password, force_new |-> force_new]

\* Lines 772-777 with `<=` for `<` in the test of the age
cache_is_valid_through_ttl(node_name, force_new, current_time, metrics_hash) ==
    /\ ~force_new
    /\ node_name \in DOMAIN quote_cache
    /\ current_time - quote_cache[node_name].generated_at
           <= QUOTE_CACHE_TTL_SECONDS
    /\ quote_cache[node_name].metrics_hash = metrics_hash

\* Lines 772-777
cache_is_valid(node_name, force_new, current_time, metrics_hash) ==
    /\ ~force_new
    /\ node_name \in DOMAIN quote_cache
    /\ current_time - quote_cache[node_name].generated_at
           < QUOTE_CACHE_TTL_SECONDS
    /\ quote_cache[node_name].metrics_hash = metrics_hash

\* Lines 778-784
cached_response(node_name, current_time) ==
    [node_name |-> node_name, character |-> character_of(node_name),
     quote |-> quote_cache[node_name].quote, cached |-> TRUE,
     cache_age_seconds |->
         Some(TruncDiv(current_time - quote_cache[node_name].generated_at, 1))]

\* Lines 796-801
fresh_response(node_name, quote) ==
    [node_name |-> node_name, character |-> character_of(node_name),
     quote |-> quote, cached |-> FALSE, cache_age_seconds |-> None]

\* The frame of a get_node_quote coroutine suspended at line 787
Frame(node_name, request, node_data, current_time, metrics_hash) ==
    [node_name |-> node_name, request |-> request, node_data |-> node_data,
     current_time |-> current_time, metrics_hash |-> metrics_hash]

\* Lines 790-794 with the time of the first generation kept on a refresh
store_quote_keep_time(node_name, quote, current_time, metrics_hash) ==
    DictSet(quote_cache, node_name,
            QuoteCache(quote,
                       IF node_name \in DOMAIN quote_cache
                       THEN quote_cache[node_name].generated_at
                       ELSE current_time,
                       metrics_hash))

\* Lines 790-794
store_quote(node_name, quote, current_time, metrics_hash) ==
    DictSet(quote_cache, node_name,
            QuoteCache(quote, current_time, metrics_hash))

\* Lines 752-761 with the test of the node before the test of the secret
quote_status_node_first(node_name, request) ==
    IF ~TruthyStr(INTERACTIVE_PASSWORD) THEN 503
    ELSE IF node_name \notin DOMAIN nodes_data THEN 404
    ELSE IF Some(request.password) # INTERACTIVE_PASSWORD THEN 401
    ELSE 200

\* Lines 752-761: the status of a request that is turned away, 200 otherwise
quote_status(node_name, request) ==
    IF ~TruthyStr(INTERACTIVE_PASSWORD) THEN 503
    ELSE IF Some(request.password) # INTERACTIVE_PASSWORD THEN 401
    ELSE IF node_name \notin DOMAIN nodes_data THEN 404
    ELSE 200

\* get_node_quote with an empty entry put into the cache before the await
get_node_quote_reserving(node_name, request) ==
    LET code == quote_status(node_name, request)
        node_data == nodes_data[node_name]
        current_time == now
        metrics_hash == compute_metrics_hash(node_data)
    IN  /\ UNCHANGED <<now, ticks, config, nodes_data, connections_data>>
        /\ IF code # 200
           THEN /\ last' = Event("get_node_quote", node_name, code, request, None)
                /\ UNCHANGED <<quote_cache, pending>>
           ELSE IF cache_is_valid(node_name, request.force_new, current_time,
                                  metrics_hash)
           THEN /\ last' = Event("get_node_quote", node_name, 200, request,
                                 cached_response(node_name, current_time))
                /\ UNCHANGED <<quote_cache, pending>>
           ELSE /\ Len(pending) < MaxPending
                /\ pending' = Append(pending,
                                     Frame(node_name, request, node_data,
                                           current_time, metrics_hash))
                /\ quote_cache' = store_quote(node_name, "", current_time,
                                              metrics_hash)
                /\ last' = Event("_generate_quote", node_name, 0, request, None)

\* get_node_quote up to its return or up to the await of the provider call
get_node_quote(node_name, request) ==
    LET code == quote_status(node_name, request)
        node_data == nodes_data[node_name]
        current_time == now
        metrics_hash == compute_metrics_hash(node_data)
    IN  /\ UNCHANGED <<now, ticks, config, nodes_data, connections_data>>
        /\ IF code # 200
           THEN /\ last' = Event("get_node_quote", node_name, code, request, None)
                /\ UNCHANGED <<quote_cache, pending>>
           ELSE IF cache_is_valid(node_name, request.force_new, current_time,
                                  metrics_hash)
           THEN /\ last' = Event("get_node_quote", node_name, 200, request,
                                 cached_response(node_name, current_time))
                /\ UNCHANGED <<quote_cache, pending>>
           ELSE IF ~openai_client
           THEN \* _generate_quote returns at line 666 without suspending
                LET quote == fallback_quote(character_of(node_name))
                IN  /\ quote_cache' = store_quote(node_name, quote, current_time,
                                                  metrics_hash)
                    /\ last' = Event("get_node_quote", node_name, 200, request,
                                     fresh_response(node_name, quote))
                    /\ UNCHANGED pending
           ELSE /\ Len(pending) < MaxPending
                /\ pending' = Append(pending,
                                     Frame(node_name, request, node_data,
                                           current_time, metrics_hash))
                /\ last' = Event("_generate_quote", node_name, 0, request, None)
                /\ UNCHANGED quote_cache

\* Lines 728-742: the provider's answer, or the fallback when the call raises
generated_quote(node_name, reply) ==
    IF reply = None THEN fallback_quote(character_of(node_name))
    ELSE reply[1]

\* Lines 790-794 with the fingerprint taken anew from the registry after the
\* provider call
resume_node_quote_rehashing(i, reply) ==
    LET frame == pending[i]
        quote == generated_quote(frame.node_name, reply)
        metrics_hash ==
            IF frame.node_name \in DOMAIN nodes_data
            THEN compute_metrics_hash(nodes_data[frame.node_name])
            ELSE frame.metrics_hash
    IN  /\ quote_cache' = store_quote(frame.node_name, quote,
                                      frame.current_time, metrics_hash)
        /\ pending' = [j \in 1..(Len(pending) - 1) |->
                          IF j < i THEN pending[j] ELSE pending[j + 1]]
        /\ last' = Event("get_node_quote", frame.node_name, 200, frame.request,
                         fresh_response(frame.node_name, quote))
        /\ UNCHANGED <<now, ticks, config, nodes_data, connections_data>>

\* get_node_quote from the return of the provider call to its own return
resume_node_quote(i, reply) ==
    LET frame == pending[i]
        quote == generated_quote(frame.node_name, reply)
    IN  /\ quote_cache' = store_quote(frame.node_name, quote,
                                      frame.current_time, frame.metrics_hash)
        /\ pending' = [j \in 1..(Len(pending) - 1) |->
                          IF j < i THEN pending[j] ELSE pending[j + 1]]
        /\ last' = Event("get_node_quote", frame.node_name, 200, frame.request,
                         fresh_response(frame.node_name, quote))
        /\ UNCHANGED <<now, ticks, config, nodes_data, connections_data>>

(***************************************************************************)
(* The clock. Between two requests it advances by a minute, by the quote   *)
(* cache's time to live, or by the whole life of an unreported node. The   *)
(* provider call is cut off by the HTTP client's timeout of some minutes,  *)
(* so the day-long steps are taken only while no call is in flight.        *)
(***************************************************************************)
Minute == {60}
NodeLife == {DEFAULT_NODE_TIMEOUT_SECONDS + DEFAULT_CLEANUP_GRACE_PERIOD_SECONDS}
QuoteLife == {QUOTE_CACHE_TTL_SECONDS}

Tick(d) ==
    /\ ticks < MaxTicks
    /\ d \notin Minute => pending = <<>>
    /\ now' = now + d
    /\ ticks' = ticks + 1
    /\ last' = Event("tick", Unnamed, 0, None, None)
    /\ UNCHANGED <<config, store, pending>>

(***************************************************************************)
(* The reports and link samples the reporters send.                        *)
(***************************************************************************)
IdentitySame == Identity("office.local", Some("10.0.0.1"), Some("v1.28"))
IdentityNewIp == Identity("office.local", Some("10.0.0.2"), Some("v1.28"))

GeoKnown ==
    Geo(Some(525), Some(134), Some("Berlin"), Some("ip_api"), Some("hetzner"))
GeoUnset == Geo(None, None, None, None, None)

\* cpu 51.0 and 58.0 fall in one bucket of the metrics hash, 80.0 in another
Telemetry51 ==
    Telemetry(Some(510), Some(710), Some(400), Some(1000), Some(2000),
              Some(410), Some(864000), Some(11))
Telemetry58 ==
    Telemetry(Some(580), Some(780), Some(450), Some(1500), Some(0),
              Some(440), Some(900000), Some(14))
Telemetry80 ==
    Telemetry(Some(800), None, Some(0), None, Some(3000),
              None, None, Some(0))

Report(id, geo, tel, ts) == [id |-> id, geo |-> geo, tel |-> tel, ts |-> ts]

Reports ==
    {Report(IdentitySame, GeoKnown, Telemetry51, 0),
     Report(IdentityNewIp, GeoUnset, Telemetry80, 999999)}

ConnectionLists(n) ==
    {None, Some(<<>>),
     Some(<<Connection(OtherName(n), 100)>>),
     Some(<<Connection(Roy, 120), Connection(OtherName(n), 150),
            Connection(n, 80)>>)}

(***************************************************************************)
(* The aggregator from import on, under the default configuration.         *)
(***************************************************************************)
InitStore ==
    /\ now = 0
    /\ ticks = 0
    /\ nodes_data = <<>>
    /\ connections_data = <<>>
    /\ quote_cache = <<>>
    /\ pending = <<>>
    /\ last = Event("import", Unnamed, 0, None, None)

DefaultSettings ==
    /\ NODE_TIMEOUT = DEFAULT_NODE_TIMEOUT_SECONDS
    /\ CLEANUP_GRACE_PERIOD = DEFAULT_CLEANUP_GRACE_PERIOD_SECONDS
    /\ MAX_CONNECTIONS = DEFAULT_MAX_CONNECTIONS
    /\ DEDUP_CONNECTIONS = DEFAULT_DEDUP_CONNECTIONS

(***************************************************************************)
(* Spec: the registry. Reports come in, single nodes are read and deleted, *)
(* the node list is read, time passes. Nobody asks for a quote.            *)
(***************************************************************************)
Init ==
    /\ InitStore
    /\ DefaultSettings
    /\ INTERACTIVE_PASSWORD = None
    /\ openai_client = FALSE

Ingest ==
    \E n \in Names, r \in Reports : \E c \in ConnectionLists(n) :
        receive_node_data(NodeData(n, r.id, r.geo, r.tel, r.ts, c))

ListNodes == get_all_nodes

GetNode == \E n \in Names : get_node_details(n)

DeleteNode == \E n \in Names : remove_node(n)

Advance == \E d \in Minute \cup NodeLife : Tick(d)

Next ==
    \/ Ingest
    \/ ListNodes
    \/ GetNode
    \/ DeleteNode
    \/ Advance

Spec == Init /\ [][Next]_vars

(***************************************************************************)
(* SpecReplace: one node is reported over and over, with every combination *)
(* of identity and location values, unset and zero ones among them.        *)
(***************************************************************************)
Hostnames == {"", "office.local", "annex.local"}
Addresses == {None, Some("10.0.0.1"), Some("10.0.0.2")}
Versions == {None, Some("v1.28"), Some("v1.29")}
Latitudes == {None, Some(0), Some(525)}
Longitudes == {None, Some(134)}
Locations == {None, Some("Berlin")}

\* A report that knows its whole position may bring link samples along
SamplesWith(la, lo, loc) ==
    IF la # None /\ lo # None /\ loc # None
    THEN {None, Some(<<Connection(Pam, 100)>>)}
    ELSE {None}

IngestAnyIdentity ==
    \E h \in Hostnames, ip \in Addresses, k \in Versions,
       la \in Latitudes, lo \in Longitudes, loc \in Locations :
        \E c \in SamplesWith(la, lo, loc) :
            receive_node_data(
                NodeData(Jim, Identity(h, ip, k),
                         Geo(la, lo, loc,
                             IF loc = None THEN None ELSE Some("ip_api"), None),
                         Telemetry51, 0, c))

NextReplace == IngestAnyIdentity

SpecReplace == Init /\ [][NextReplace]_vars

(***************************************************************************)
(* SpecEvict: both nodes report, quotes are asked for and answered with    *)
(* the fallback text, time passes, and the node list, the connections and  *)
(* the statistics are read.                                                *)
(***************************************************************************)
InitEvict ==
    /\ InitStore
    /\ DefaultSettings
    /\ INTERACTIVE_PASSWORD = Some("hunter2")
    /\ openai_client = FALSE

IngestPlain ==
    \E n \in Names : \E c \in ConnectionLists(n) \ {Some(<<>>)} :
        receive_node_data(
            NodeData(n, IdentitySame, GeoKnown, Telemetry51, 0, c))

QuotePlain ==
    \E n \in Names : get_node_quote(n, QuoteRequest("hunter2", FALSE))

ListConnections == get_all_connections

Stats == get_cluster_stats

NextEvict ==
    \/ IngestPlain
    \/ QuotePlain
    \/ ListNodes
    \/ ListConnections
    \/ Stats
    \/ Advance

SpecEvict == InitEvict /\ [][NextEvict]_vars

(***************************************************************************)
(* SpecQuote: Jim reports changing telemetry; quotes are asked for with    *)
(* the right and the wrong secret, forced and not, with the provider       *)
(* configured or not; the provider answers or fails; nodes are listed.     *)
(***************************************************************************)
InitQuote ==
    /\ InitStore
    /\ DefaultSettings
    /\ INTERACTIVE_PASSWORD = Some("hunter2")
    /\ openai_client \in BOOLEAN

IngestTelemetry ==
    \E tel \in {Telemetry51, Telemetry58, Telemetry80} :
        receive_node_data(NodeData(Jim, IdentitySame, GeoKnown, tel, 0, None))

Passwords == {"hunter2", "wrong"}
ProviderReplies == {None, Some("Bears. Beets. Metrics.")}

Quote ==
    \E n \in Names, pw \in Passwords, f \in BOOLEAN :
        get_node_quote(n, QuoteRequest(pw, f))

QuoteResume ==
    \E i \in 1..Len(pending), reply \in ProviderReplies :
        resume_node_quote(i, reply)

AdvanceQuote == \E d \in Minute \cup QuoteLife : Tick(d)

NextQuote ==
    \/ IngestTelemetry
    \/ Quote
    \/ QuoteResume
    \/ ListNodes
    \/ AdvanceQuote

SpecQuote == InitQuote /\ [][NextQuote]_vars

(***************************************************************************)
(* SpecLinks: both nodes report their place and their link samples, change *)
(* or lose their place, and are deleted; the links are read with and       *)
(* without deduplication, under a cap that cuts and under one that does    *)
(* not.                                                                    *)
(***************************************************************************)
LinkSettings ==
    {[dedup |-> TRUE, max |-> DEFAULT_MAX_CONNECTIONS],
     [dedup |-> TRUE, max |-> 2],
     [dedup |-> FALSE, max |-> 3]}

InitLinks ==
    /\ InitStore
    /\ NODE_TIMEOUT = DEFAULT_NODE_TIMEOUT_SECONDS
    /\ CLEANUP_GRACE_PERIOD = DEFAULT_CLEANUP_GRACE_PERIOD_SECONDS
    /\ \E setting \in LinkSettings :
          /\ DEDUP_CONNECTIONS = setting.dedup
          /\ MAX_CONNECTIONS = setting.max
    /\ INTERACTIVE_PASSWORD = None
    /\ openai_client = FALSE

GeoOf(n) ==
    IF n = Jim
    THEN Geo(Some(525), Some(134), Some("Berlin"), Some("ip_api"),
             Some("hetzner"))
    ELSE Geo(Some(481), Some(116), Some("Munich"), Some("ip_api"),
             Some("hetzner"))

LinkLists(n) ==
    {None,
     Some(<<Connection(OtherName(n), 10)>>),
     Some(<<Connection(OtherName(n), 15), Connection(Roy, 12)>>),
     Some(<<Connection(Roy, 20), Connection(OtherName(n), 15),
            Connection(OtherName(n), 10)>>)}

IngestLinks ==
    \E n \in Names : \E geo \in {GeoOf(n), GeoUnset}, c \in LinkLists(n) :
        receive_node_data(NodeData(n, IdentitySame, geo, Telemetry51, 0, c))

NextLinks ==
    \/ IngestLinks
    \/ DeleteNode
    \/ ListConnections

SpecLinks == InitLinks /\ [][NextLinks]_vars

(***************************************************************************)
(* SpecStatus: NODE_TIMEOUT_SECONDS is set to 30 or 90 or left at its      *)
(* default; both nodes report, with the reporter's clock right or far off; *)
(* the node list is read while the clock advances by a half minute, by a   *)
(* second less or more than a minute, by 59 minutes and by an hour.        *)
(***************************************************************************)
NodeTimeouts == {30, 90, DEFAULT_NODE_TIMEOUT_SECONDS}

InitStatus ==
    /\ InitStore
    /\ NODE_TIMEOUT \in NodeTimeouts
    /\ CLEANUP_GRACE_PERIOD = DEFAULT_CLEANUP_GRACE_PERIOD_SECONDS
    /\ MAX_CONNECTIONS = DEFAULT_MAX_CONNECTIONS
    /\ DEDUP_CONNECTIONS = DEFAULT_DEDUP_CONNECTIONS
    /\ INTERACTIVE_PASSWORD = None
    /\ openai_client = FALSE

IngestReport ==
    \E n \in Names, r \in Reports :
        receive_node_data(NodeData(n, r.id, r.geo, r.tel, r.ts, None))

Pace == {30, 59, 60, 61, 3540, 3600}

AdvanceStatus == \E d \in Pace : Tick(d)

NextStatus ==
    \/ IngestReport
    \/ ListNodes
    \/ AdvanceStatus

SpecStatus == InitStatus /\ [][NextStatus]_vars

(***************************************************************************)
(* SpecHash: each node reports once, one of a range of telemetry snapshots *)
(* (values in tenths): the ones above, single readings on either side of a *)
(* bucket's edge, none at all, all zero, temperatures around the freezing  *)
(* point, and an idle and a busy machine on its 25th day. Quotes are asked *)
(* for and answered with the fallback text.                                *)
(***************************************************************************)
Cpu20 ==
    Telemetry(Some(200), None, None, None, None,
              None, None, None)
Cpu59 ==
    Telemetry(Some(599), None, None, None, None,
              None, None, None)
Cpu60 ==
    Telemetry(Some(600), None, None, None, None,
              None, None, None)
Unset ==
    Telemetry(None, None, None, None, None,
              None, None, None)
Zeros ==
    Telemetry(Some(0), Some(0), None, None, None,
              Some(0), Some(0), Some(0))
LastSecondOfDay ==
    Telemetry(Some(510), Some(710), None, None, None,
              Some(410), Some(1727990), Some(11))
Load15 ==
    Telemetry(Some(510), Some(710), None, None, None,
              Some(410), Some(864000), Some(15))
HardFrost ==
    Telemetry(None, None, None, None, None,
              Some(-50), None, None)
Frost ==
    Telemetry(None, None, None, None, None,
              Some(-30), None, None)
Thaw ==
    Telemetry(None, None, None, None, None,
              Some(30), None, None)
Idle ==
    Telemetry(Some(50), Some(850), None, None, None,
              Some(470), Some(20737000), Some(32))
Busy ==
    Telemetry(Some(1000), Some(930), None, None, None,
              Some(470), Some(20737000), Some(71))

Snapshots ==
    {Telemetry51, Telemetry58, Telemetry80, Cpu20, Cpu59, Cpu60, Unset, Zeros,
     LastSecondOfDay, Load15, HardFrost, Frost, Thaw, Idle, Busy}

InitHash == InitEvict

IngestOnce ==
    \E n \in Names, tel \in Snapshots :
        /\ n \notin DOMAIN nodes_data
        /\ receive_node_data(NodeData(n, IdentitySame, GeoKnown, tel, 0, None))

NextHash ==
    \/ IngestOnce
    \/ QuotePlain

SpecHash == InitHash /\ [][NextHash]_vars

(***************************************************************************)
(* SpecAccess: INTERACTIVE_PASSWORD is unset, empty or set and the         *)
(* provider is configured or not; Jim and Roy report, Pam never does;      *)
(* quotes are asked for all three with the right, a wrong and an empty     *)
(* secret; the provider answers or fails; a minute passes.                 *)
(***************************************************************************)
Secrets == {None, Some(""), Some("hunter2")}

InitAccess ==
    /\ InitStore
    /\ DefaultSettings
    /\ INTERACTIVE_PASSWORD \in Secrets
    /\ openai_client \in BOOLEAN

IngestReporting ==
    \E n \in {Jim, Roy} :
        receive_node_data(
            NodeData(n, IdentitySame, GeoKnown, Telemetry51, 0, None))

QuoteAny ==
    \E n \in Targets, pw \in Passwords \cup {""} :
        get_node_quote(n, QuoteRequest(pw, FALSE))

AdvanceMinute == \E d \in Minute : Tick(d)

NextAccess ==
    \/ IngestReporting
    \/ QuoteAny
    \/ QuoteResume
    \/ AdvanceMinute

SpecAccess == InitAccess /\ [][NextAccess]_vars

(***************************************************************************)
(* SpecStats: all three nodes report, with full telemetry and a provider   *)
(* and two link samples or with sparse telemetry and neither; minutes      *)
(* pass, so that reports age up to the liveness timeout; the statistics    *)
(* are read.                                                               *)
(***************************************************************************)
IngestMetrics ==
    \E n \in Targets, r \in Reports :
        receive_node_data(
            NodeData(n, r.id, r.geo, r.tel, r.ts,
                     IF r.tel = Telemetry51
                     THEN Some(<<Connection(Jim, 10), Connection(Pam, 20)>>)
                     ELSE None))

NextStats ==
    \/ IngestMetrics
    \/ Stats
    \/ AdvanceMinute

SpecStats == InitEvict /\ [][NextStats]_vars

(***************************************************************************)
(* SpecBoundary: reports arrive for Jim and under the empty name, whole or *)
(* without their hostname, with no, an empty, a short or a longer list of  *)
(* link samples; the nodes and the connections are listed; minutes pass.   *)
(***************************************************************************)
Nameless == ""

WithoutHostname(body) == [f \in DOMAIN body \ {"hostname"} |-> body[f]]

Bodies ==
    LET whole == {NodeData(n, IdentitySame, GeoKnown, tel, 0, c) :
                      n \in {Nameless, Jim}, tel \in {Telemetry51, Telemetry80},
                      c \in ConnectionLists(Jim)}
    IN  whole \cup {WithoutHostname(body) : body \in whole}

PostNode == \E body \in Bodies : post_api_nodes(body)

NextBoundary ==
    \/ PostNode
    \/ ListNodes
    \/ ListConnections
    \/ AdvanceMinute

SpecBoundary == Init /\ [][NextBoundary]_vars

(***************************************************************************)
(* SpecFlight: the provider is configured, so every quote that misses the  *)
(* cache waits for it. Jim reports, with and without a link sample; quotes *)
(* are asked for, forced and not; while a call is in flight the other      *)
(* routes are served and minutes pass; between calls a node's whole life   *)
(* may pass.                                                               *)
(***************************************************************************)
InitFlight ==
    /\ InitStore
    /\ DefaultSettings
    /\ INTERACTIVE_PASSWORD = Some("hunter2")
    /\ openai_client = TRUE

IngestJim ==
    \E tel \in {Telemetry51, Telemetry80},
       c \in {None, Some(<<Connection(Pam, 100)>>)} :
        receive_node_data(NodeData(Jim, IdentitySame, GeoKnown, tel, 0, c))

QuoteForced ==
    \E n \in Names, f \in BOOLEAN :
        get_node_quote(n, QuoteRequest("hunter2", f))

NextFlight ==
    \/ IngestJim
    \/ QuoteForced
    \/ QuoteResume
    \/ ListNodes
    \/ GetNode
    \/ DeleteNode
    \/ ListConnections
    \/ Stats
    \/ Advance

SpecFlight == InitFlight /\ [][NextFlight]_vars

(***************************************************************************)
(* SpecClock: both nodes report, with the reporter's clock right or far    *)
(* off; minutes and whole node lives pass; the node list and the           *)
(* statistics are read. SpecLive is the same system in which GET           *)
(* /api/nodes keeps being requested.                                       *)
(***************************************************************************)
NextClock ==
    \/ IngestReport
    \/ ListNodes
    \/ Stats
    \/ Advance

SpecClock == Init /\ [][NextClock]_vars

\* What get_all_nodes does to the stores at line 435, whatever it answers
cleanup_step ==
    /\ nodes_data' = cleaned_nodes
    /\ connections_data' = cleaned_connections
    /\ quote_cache' = cleaned_quotes
    /\ UNCHANGED <<now, ticks, config, pending>>

\* A read that has a node to evict is not put off for ever
SpecLive == Init /\ [][NextClock]_vars /\ WF_nodes_data(cleanup_step)

(***************************************************************************)
(* SpecEnv: the import of the module under each environment. The three     *)
(* numeric settings are read from the environment one after the other     *)
(* (lines 128, 156 and 205); a setting is unbound (None) until its loader  *)
(* has run, and the import is followed up to line 205. The environment is  *)
(* what the events of the import carry as their request.                   *)
(***************************************************************************)
NODE_TIMEOUT_ENV_VAR == "NODE_TIMEOUT_SECONDS"
CLEANUP_GRACE_PERIOD_ENV_VAR == "CLEANUP_GRACE_PERIOD_SECONDS"
MAX_CONNECTIONS_ENV_VAR == "MAX_CONNECTIONS"

\* os.getenv(name): the value as a sequence of characters, None when unset
getenv(environ, name) == environ[name]

DigitValue ==
    "0" :> 0 @@ "1" :> 1 @@ "2" :> 2 @@ "3" :> 3 @@ "4" :> 4 @@
    "5" :> 5 @@ "6" :> 6 @@ "7" :> 7 @@ "8" :> 8 @@ "9" :> 9

\* str.strip() as int() applies it before it reads the literal
RECURSIVE lstrip(_)
lstrip(s) == IF s # <<>> /\ Head(s) = " " THEN lstrip(Tail(s)) ELSE s

RECURSIVE rstrip(_)
rstrip(s) ==
    IF s # <<>> /\ s[Len(s)] = " " THEN rstrip(SubSeq(s, 1, Len(s) - 1)) ELSE s

\* The digits of a decimal literal: single underscores between digits only
RECURSIVE decimal(_, _, _)
decimal(s, acc, after_digit) ==
    IF s = <<>>
    THEN IF after_digit THEN Some(acc) ELSE None
    ELSE IF Head(s) \in DOMAIN DigitValue
    THEN decimal(Tail(s), acc * 10 + DigitValue[Head(s)], TRUE)
    ELSE IF Head(s) = "_" /\ after_digit
    THEN decimal(Tail(s), acc, FALSE)
    ELSE None

\* int(raw_value): Some(value), or None for the ValueError
int(raw_value) ==
    LET literal == rstrip(lstrip(raw_value))
    IN  IF literal = <<>>
        THEN None
        ELSE IF Head(literal) \in {"+", "-"}
        THEN LET magnitude == decimal(Tail(literal), 0, FALSE)
             IN  IF magnitude = None
                 THEN None
                 ELSE IF Head(literal) = "-"
                 THEN Some(0 - magnitude[1])
                 ELSE magnitude
        ELSE decimal(literal, 0, FALSE)

\* _load_max_connections without the test of line 196
load_max_connections_unchecked(environ) ==
    LET raw_value == getenv(environ, MAX_CONNECTIONS_ENV_VAR)
    IN  IF raw_value = None
        THEN DEFAULT_MAX_CONNECTIONS
        ELSE LET value == int(raw_value[1])
             IN  IF value = None THEN DEFAULT_MAX_CONNECTIONS ELSE value[1]

load_node_timeout(environ) ==
    LET raw_value == getenv(environ, NODE_TIMEOUT_ENV_VAR)
    IN  IF raw_value = None
        THEN DEFAULT_NODE_TIMEOUT_SECONDS
        ELSE LET value == int(raw_value[1])
             IN  IF value = None
                 THEN DEFAULT_NODE_TIMEOUT_SECONDS
                 ELSE IF value[1] <= 0
                 THEN DEFAULT_NODE_TIMEOUT_SECONDS
                 ELSE value[1]

load_cleanup_grace_period(environ) ==
    LET raw_value == getenv(environ, CLEANUP_GRACE_PERIOD_ENV_VAR)
    IN  IF raw_value = None
        THEN DEFAULT_CLEANUP_GRACE_PERIOD_SECONDS
        ELSE LET value == int(raw_value[1])
             IN  IF value = None
                 THEN DEFAULT_CLEANUP_GRACE_PERIOD_SECONDS
                 ELSE IF value[1] <= 0
                 THEN DEFAULT_CLEANUP_GRACE_PERIOD_SECONDS
                 ELSE value[1]

load_max_connections(environ) ==
    LET raw_value == getenv(environ, MAX_CONNECTIONS_ENV_VAR)
    IN  IF raw_value = None
        THEN DEFAULT_MAX_CONNECTIONS
        ELSE LET value == int(raw_value[1])
             IN  IF value = None
                 THEN DEFAULT_MAX_CONNECTIONS
                 ELSE IF value[1] <= 0
                 THEN DEFAULT_MAX_CONNECTIONS
                 ELSE value[1]

\* Environment values: every text of up to MaxRawLen of these characters,
\* and the values of the tests
MaxRawLen == 3
RawCharacters == {" ", "+", "-", "_", "0", "3", "a", "."}
Texts == UNION {[1..n -> RawCharacters] : n \in 0..MaxRawLen}
TestedTexts ==
    {<<"3", "0", "0">>, <<"3", "6", "0", "0">>, <<"-", "5">>,
     <<"n", "o", "t", "-", "a", "-", "n", "u", "m", "b", "e", "r">>}
RawValues == {None} \cup {Some(t) : t \in Texts \cup TestedTexts}

EnvVars ==
    {NODE_TIMEOUT_ENV_VAR, CLEANUP_GRACE_PERIOD_ENV_VAR, MAX_CONNECTIONS_ENV_VAR}

\* One variable takes every value while the others are unset, or all three
\* take the values of the tests
Environments ==
    {[v \in EnvVars |-> IF v = name THEN raw ELSE None] :
        name \in EnvVars, raw \in RawValues}
    \cup [EnvVars -> {None} \cup {Some(t) : t \in TestedTexts}]

InitEnv ==
    /\ now = 0
    /\ ticks = 0
    /\ nodes_data = <<>>
    /\ connections_data = <<>>
    /\ quote_cache = <<>>
    /\ pending = <<>>
    /\ NODE_TIMEOUT = None
    /\ CLEANUP_GRACE_PERIOD = None
    /\ MAX_CONNECTIONS = None
    /\ DEDUP_CONNECTIONS = None
    /\ INTERACTIVE_PASSWORD = None
    /\ openai_client = FALSE
    /\ \E environ \in Environments :
          last = Event("environ", Unnamed, 0, environ, None)

\* NODE_TIMEOUT = _load_node_timeout(), line 128
LoadNodeTimeout ==
    /\ last.op = "environ"
    /\ NODE_TIMEOUT' = load_node_timeout(last.request)
    /\ last' = Event("_load_node_timeout", Unnamed, 0, last.request, None)
    /\ UNCHANGED <<now, ticks, CLEANUP_GRACE_PERIOD, MAX_CONNECTIONS,
                   DEDUP_CONNECTIONS, INTERACTIVE_PASSWORD, openai_client,
                   store, pending>>

\* CLEANUP_GRACE_PERIOD = _load_cleanup_grace_period(), line 156
LoadCleanupGracePeriod ==
    /\ last.op = "_load_node_timeout"
    /\ CLEANUP_GRACE_PERIOD' = load_cleanup_grace_period(last.request)
    /\ last' = Event("_load_cleanup_grace_period", Unnamed, 0, last.request,
                     None)
    /\ UNCHANGED <<now, ticks, NODE_TIMEOUT, MAX_CONNECTIONS,
                   DEDUP_CONNECTIONS, INTERACTIVE_PASSWORD, openai_client,
                   store, pending>>

\* MAX_CONNECTIONS = _load_max_connections(), line 205
LoadMaxConnections ==
    /\ last.op = "_load_cleanup_grace_period"
    /\ MAX_CONNECTIONS' = load_max_connections(last.request)
    /\ last' = Event("_load_max_connections", Unnamed, 0, last.request, None)
    /\ UNCHANGED <<now, ticks, NODE_TIMEOUT, CLEANUP_GRACE_PERIOD,
                   DEDUP_CONNECTIONS, INTERACTIVE_PASSWORD, openai_client,
                   store, pending>>

NextEnv ==
    \/ LoadNodeTimeout
    \/ LoadCleanupGracePeriod
    \/ LoadMaxConnections

SpecEnv == InitEnv /\ [][NextEnv]_vars

(***************************************************************************)
(* SpecFrame: two nodes report, with and without links and with a change of *)
(* identity, while quotes are asked for and cached (no provider is         *)
(* configured, so every quote is a fallback line).                         *)
(***************************************************************************)
IngestEither ==
    \E n \in Names, r \in Reports :
        \E c \in {None, Some(<<Connection(OtherName(n), 100)>>)} :
            receive_node_data(NodeData(n, r.id, r.geo, r.tel, r.ts, c))

NextFrame ==
    \/ IngestEither
    \/ QuotePlain
    \/ AdvanceMinute

SpecFrame == InitEvict /\ [][NextFrame]_vars

(***************************************************************************)
(* Claims checked under Spec.                                              *)
(***************************************************************************)
NodeLifeSeconds == NODE_TIMEOUT + CLEANUP_GRACE_PERIOD
AgeOf(n) == now - nodes_data[n].received_at
SamplesOf(od, n) == IF n \in OKeys(od) THEN OGet(od, n) ELSE <<>>
LocationFields == {"lat", "lon", "location"}
ReportedFields == TelemetryFields \cup {"provider", "timestamp"}

\* C1: the registry is keyed by the name inside each report; a stored report
\* changes only by an Ingest for its name, which stores the submitted report
\* (a location field may instead be the one kept from the report it replaces)
\* stamped with the clock; and received_at never decreases while the name
\* stays registered.
C1_LatestIngestStored ==
    [][\A n \in Names :
        /\ n \in DOMAIN nodes_data' => nodes_data'[n].name = n
        /\ n \in DOMAIN nodes_data' =>
             IF last'.op = "receive_node_data" /\ last'.name = n
             THEN /\ nodes_data'[n].received_at = now
                  /\ \A f \in DOMAIN model_dump(last'.request) :
                        \/ nodes_data'[n][f] = last'.request[f]
                        \/ /\ f \in LocationFields
                           /\ n \in DOMAIN nodes_data
                           /\ nodes_data'[n][f] = nodes_data[n][f]
             ELSE n \in DOMAIN nodes_data /\ nodes_data'[n] = nodes_data[n]
        /\ (n \in DOMAIN nodes_data /\ n \in DOMAIN nodes_data') =>
             nodes_data'[n].received_at >= nodes_data[n].received_at]_vars

\* C1 witness: Jim has just been reported again, later than Pam was.
C1_Witness ==
    /\ last.op = "receive_node_data" /\ last.name = Jim
    /\ now > 0
    /\ nodes_data[Jim].received_at = now
    /\ Pam \in DOMAIN nodes_data /\ nodes_data[Pam].received_at < now

\* C2: a GET /nodes/{N} right after an Ingest for N answers with every
\* reported field outside identity and location as submitted, and with a
\* received_at not before the submission.
C2_ReadAfterIngest ==
    [][(/\ last.op = "receive_node_data"
        /\ last'.op = "get_node_details"
        /\ last'.name = last.name)
       => /\ last'.code = 200
          /\ \A f \in ReportedFields : last'.body[f] = last.request[f]
          /\ last'.body.received_at >= now]_vars

\* C2 witness: Jim is read at the instant of an Ingest that replaced him; the
\* location is the old one, the telemetry is the new report's.
C2_Witness ==
    /\ last.op = "get_node_details" /\ last.name = Jim /\ last.code = 200
    /\ now > 0
    /\ last.body.received_at = now
    /\ last.body.internal_ip = IdentityNewIp.internal_ip
    /\ last.body.lat = GeoKnown.lat
    /\ \A f \in TelemetryFields : last.body[f] = Telemetry80[f]

\* C3: an Ingest with a non-empty list of link samples leaves exactly that
\* list stored for its source; an Ingest without a list leaves the source's
\* stored list as it was.
C3_SamplesReplaced ==
    [][last'.op = "receive_node_data" =>
        LET n == last'.name
            submitted == last'.request.connections
        IN  /\ (submitted # None /\ submitted[1] # <<>>) =>
                 /\ n \in OKeys(connections_data')
                 /\ OGet(connections_data', n) = submitted[1]
            /\ submitted = None =>
                 /\ n \in OKeys(connections_data') <=> n \in OKeys(connections_data)
                 /\ SamplesOf(connections_data', n) = SamplesOf(connections_data, n)]_vars

\* C3 witness: Jim has just reported without a list and his three samples are
\* still stored.
C3_Witness ==
    /\ last.op = "receive_node_data" /\ last.name = Jim
    /\ last.request.connections = None
    /\ now > 0 /\ nodes_data[Jim].received_at = now
    /\ SamplesOf(connections_data, Jim) =
           <<Connection(Roy, 120), Connection(Pam, 150), Connection(Jim, 80)>>

C7_EvictedNodeGone ==
    [][last'.op = "get_all_nodes" =>
        \A n \in DOMAIN nodes_data :
            AgeOf(n) > NodeLifeSeconds =>
                /\ n \notin DOMAIN last'.body
                /\ \A i \in 1..Len(connections_data') :
                     \A j \in 1..Len(connections_data'[i].value) :
                        connections_data'[i].value[j].target_node # n]_vars

\* C7 witness: the list has just been read and Jim was removed; Pam is left
\* with the two of her three samples that do not point at Jim.
C7_Witness ==
    /\ last.op = "get_all_nodes"
    /\ last.cleaned_up = {Jim}
    /\ Pam \in DOMAIN last.body
    /\ SamplesOf(connections_data, Pam) =
           <<Connection(Roy, 120), Connection(Pam, 80)>>

\* C16: GET and DELETE of a name without a report answer 404 and change
\* nothing stored. GET of a registered name answers its stored report and
\* changes nothing; DELETE of a registered name answers success and removes
\* that report and no other, so that a GET of the name right after is a 404.
C16_ReadAndDeleteOneNode ==
    [][/\ last'.op \in {"get_node_details", "remove_node"} =>
            LET n == last'.name
            IN  /\ n \notin DOMAIN nodes_data =>
                      /\ last'.code = 404
                      /\ UNCHANGED store
                /\ (n \in DOMAIN nodes_data /\ last'.op = "get_node_details") =>
                      /\ last'.code = 200
                      /\ last'.body = nodes_data[n]
                      /\ UNCHANGED store
                /\ (n \in DOMAIN nodes_data /\ last'.op = "remove_node") =>
                      /\ last'.code = 200
                      /\ last'.body.status = "success"
                      /\ DOMAIN nodes_data' = DOMAIN nodes_data \ {n}
                      /\ \A m \in DOMAIN nodes_data' :
                            nodes_data'[m] = nodes_data[m]
       /\ (/\ last.op = "remove_node" /\ last.code = 200
           /\ last'.op = "get_node_details" /\ last'.name = last.name)
          => last'.code = 404]_vars

\* C16 witness: a GET of Jim has just been answered 404 while Pam is
\* registered; Jim was registered before, his link samples are still stored.
C16_Witness ==
    /\ last.op = "get_node_details" /\ last.name = Jim /\ last.code = 404
    /\ DOMAIN nodes_data = {Pam}
    /\ SamplesOf(connections_data, Jim) # <<>>

(***************************************************************************)
(* Claims checked under SpecReplace.                                       *)
(***************************************************************************)
\* A value that is there: not None and not the empty string
IsSet(record, f) ==
    IF f = "hostname" THEN record[f] # "" ELSE TruthyStr(record[f])

IdentityDiffers(r1, r2) ==
    \E f \in IdentityFields :
        IsSet(r1, f) /\ IsSet(r2, f) /\ r1[f] # r2[f]

\* C4: when a report for a registered name differs from the stored one in an
\* identity field that both have, and leaves lat and lon unset where the
\* stored one had them, the stored record ends up with the new identity and
\* the old lat and lon; without such a difference nothing is carried over.
C4_ReplacementKeepsPosition ==
    [][(last'.op = "receive_node_data" /\ last'.name \in DOMAIN nodes_data) =>
        LET r1 == nodes_data[last'.name]
            r2 == last'.request
            stored == nodes_data'[last'.name]
        IN  /\ (/\ IdentityDiffers(r1, r2)
                /\ r2.lat = None /\ r2.lon = None
                /\ r1.lat # None /\ r1.lon # None)
               => /\ \A f \in IdentityFields : stored[f] = r2[f]
                  /\ stored.lat = r1.lat
                  /\ stored.lon = r1.lon
            /\ ~IdentityDiffers(r1, r2) =>
                  \A f \in DOMAIN model_dump(r2) : stored[f] = r2[f]]_vars

\* C14: on a replacement each of lat, lon, location and location_source that
\* the new report leaves unset is stored with the value of the report it
\* replaces.
C14_BackfillsEveryGeoField ==
    [][(/\ last'.op = "receive_node_data"
        /\ last'.name \in DOMAIN nodes_data
        /\ IdentityDiffers(nodes_data[last'.name], last'.request))
       => \A f \in GeoFields :
             last'.request[f] = None =>
                nodes_data'[last'.name][f] = nodes_data[last'.name][f]]_vars

\* C36: on a detected replacement each of lat, lon and location is stored as
\* the new report supplies it, and with the value of the replaced report when
\* the new report leaves it unset - a latitude or longitude of 0 being a
\* value like any other.
C36_ZeroIsAPosition ==
    [][(/\ last'.op = "receive_node_data"
        /\ last'.name \in DOMAIN nodes_data
        /\ is_replacement(nodes_data[last'.name], last'.request))
       => \A f \in LocationFields :
             /\ last'.request[f] # None =>
                   nodes_data'[last'.name][f] = last'.request[f]
             /\ last'.request[f] = None =>
                   nodes_data'[last'.name][f] = nodes_data[last'.name][f]]_vars

\* C15: a report for a registered name that differs from the stored one in
\* no identity field that both have is stored as submitted, with the time of
\* its arrival; what it leaves unset of lat, lon, location and
\* location_source is stored unset.
C15_RoutineUpdateStoredAsSent ==
    [][(/\ last'.op = "receive_node_data"
        /\ last'.name \in DOMAIN nodes_data
        /\ ~IdentityDiffers(nodes_data[last'.name], last'.request))
       => /\ nodes_data'[last'.name] =
                Merge(model_dump(last'.request), [received_at |-> now])
          /\ \A f \in GeoFields :
                last'.request[f] = None => nodes_data'[last'.name][f] = None]_vars

\* C15 witness: Jim, whose link samples an earlier report brought along with
\* its position, has just been reported with no hostname, address or version
\* and without location or coordinates, and is stored so.
C15_Witness ==
    /\ last.op = "receive_node_data" /\ last.name = Jim
    /\ last.request.connections = None
    /\ SamplesOf(connections_data, Jim) # <<>>
    /\ last.request.hostname = ""
    /\ last.request.internal_ip = None
    /\ last.request.kubelet_version = None
    /\ \A f \in GeoFields : last.request[f] = None /\ nodes_data[Jim][f] = None
    /\ nodes_data[Jim] = Merge(model_dump(last.request), [received_at |-> now])

(***************************************************************************)
(* Claims checked under SpecEvict.                                         *)
(***************************************************************************)
Kept(samples, removed) ==
    SelectSeq(samples, LAMBDA conn : conn.target_node \notin removed)

\* C5: after a GET /nodes that removed nodes, a removed node has no report,
\* no list of its own and no cached quote, no stored sample points at it and
\* no stored list is empty; every other report and cached quote is as it was
\* and every other list holds, in their order, its samples to the nodes that
\* were not removed.
C5_EvictionCascade ==
    [][(last'.op = "get_all_nodes" /\ last'.cleaned_up # {}) =>
        LET removed == last'.cleaned_up
        IN  /\ \A e \in removed :
                 /\ e \notin DOMAIN nodes_data'
                 /\ e \notin OKeys(connections_data')
                 /\ e \notin DOMAIN quote_cache'
            /\ \A i \in 1..Len(connections_data') :
                 /\ connections_data'[i].value # <<>>
                 /\ \A j \in 1..Len(connections_data'[i].value) :
                      connections_data'[i].value[j].target_node \notin removed
            /\ \A n \in Names \ removed :
                 /\ n \in DOMAIN nodes_data' <=> n \in DOMAIN nodes_data
                 /\ n \in DOMAIN nodes_data => nodes_data'[n] = nodes_data[n]
                 /\ n \in DOMAIN quote_cache' <=> n \in DOMAIN quote_cache
                 /\ n \in DOMAIN quote_cache => quote_cache'[n] = quote_cache[n]
                 /\ SamplesOf(connections_data', n)
                        = Kept(SamplesOf(connections_data, n), removed)]_vars

\* C5 witness: the list has just been read and Jim was removed. Pam keeps her
\* report, her quote and the two of her three samples that do not point at
\* Jim; of Jim nothing is left.
C5_Witness ==
    /\ last.op = "get_all_nodes"
    /\ last.cleaned_up = {Jim}
    /\ Pam \in DOMAIN nodes_data
    /\ Pam \in DOMAIN quote_cache
    /\ SamplesOf(connections_data, Pam) =
           <<Connection(Roy, 120), Connection(Pam, 80)>>
    /\ Jim \notin DOMAIN quote_cache

\* C8: no registry-wide read returns or counts a node older than
\* node_timeout + cleanup_grace_period, or a link that such a node reported.
C8_ReadsSeeNoStaleNode ==
    LET Fresh == {n \in DOMAIN nodes_data : AgeOf(n) <= NodeLifeSeconds}
    IN  /\ last.op = "get_all_nodes" => DOMAIN last.body \subseteq Fresh
        /\ last.op = "get_cluster_stats" =>
              last.body.total_nodes = Cardinality(Fresh)
        /\ last.op = "get_all_connections" =>
              \A i \in 1..Len(last.body) : last.body[i].source_node \in Fresh

(***************************************************************************)
(* Claims checked under SpecQuote.                                         *)
(***************************************************************************)
\* A step that is a quote request getting past the checks of the secret and
\* of the node, up to its answer or up to the call of the provider
QuoteAccepted ==
    /\ last'.op \in {"get_node_quote", "_generate_quote"}
    /\ last'.code \in {0, 200}
    /\ Len(pending') >= Len(pending)

\* A step in which a quote request that missed the cache returns
QuoteMissReturns ==
    /\ last'.op = "get_node_quote"
    /\ last'.code = 200
    /\ ~last'.body.cached

EntryIsCurrent(n) ==
    /\ n \in DOMAIN quote_cache
    /\ now - quote_cache[n].generated_at < QUOTE_CACHE_TTL_SECONDS
    /\ quote_cache[n].metrics_hash = compute_metrics_hash(nodes_data[n])

\* C9: an accepted quote request is answered from the cache (the stored text,
\* cached = true, no generation, the cache untouched) exactly when it is not
\* forced and the node has an entry younger than the TTL whose fingerprint is
\* that of the node's telemetry; a forced request always generates.
C9_CacheHitExactly ==
    [][QuoteAccepted =>
        LET n == last'.name
            forced == last'.request.force_new
            FromCache ==
                /\ last'.code = 200
                /\ last'.body.cached
                /\ n \in DOMAIN quote_cache
                /\ last'.body.quote = quote_cache[n].quote
                /\ quote_cache' = quote_cache
                /\ pending' = pending
            Generated ==
                \/ Len(pending') = Len(pending) + 1
                \/ last'.code = 200 /\ ~last'.body.cached
        IN  /\ FromCache <=> (~forced /\ EntryIsCurrent(n))
            /\ FromCache <=> ~Generated
            /\ forced => Generated]_vars

\* C9 witness: a quote for Jim has just been answered from the cache, a
\* minute after it was generated and after Jim reported telemetry that
\* differs within the buckets.
C9_Witness ==
    /\ last.op = "get_node_quote" /\ last.name = Jim /\ last.code = 200
    /\ last.body.cached
    /\ last.body.cache_age_seconds = Some(60)
    /\ nodes_data[Jim].received_at = now
    /\ nodes_data[Jim].cpu_percent = Telemetry58.cpu_percent

RemoveAt(seq, i) ==
    [j \in 1..(Len(seq) - 1) |-> IF j < i THEN seq[j] ELSE seq[j + 1]]

\* C10: a quote request that misses the cache generates once and, when it
\* returns, the node's entry holds the returned text with the fingerprint and
\* the time of that request, and the answer says cached = false. So a request
\* for a node without an entry misses, a repeat right after a miss with the
\* telemetry unchanged hits with the same text, and a request after the
\* fingerprint changed misses.
C10_MissGeneratesAndStores ==
    [][/\ (QuoteMissReturns /\ pending' = pending) =>
            \* generated without suspending
            /\ quote_cache'[last'.name] =
                  QuoteCache(last'.body.quote, now,
                             compute_metrics_hash(nodes_data[last'.name]))
       /\ (QuoteMissReturns /\ pending' # pending) =>
            \* generated by the provider call of one suspended request
            \E i \in 1..Len(pending) :
                /\ pending' = RemoveAt(pending, i)
                /\ pending[i].node_name = last'.name
                /\ quote_cache'[last'.name] =
                      QuoteCache(last'.body.quote, pending[i].current_time,
                                 compute_metrics_hash(pending[i].node_data))
       /\ (QuoteAccepted /\ last'.code = 0) =>
            \* the one provider call of a request that missed
            /\ Len(pending') = Len(pending) + 1
            /\ pending'[Len(pending')].node_name = last'.name
            /\ pending'[Len(pending')].current_time = now
            /\ pending'[Len(pending')].node_data = nodes_data[last'.name]
            /\ quote_cache' = quote_cache
       /\ (QuoteAccepted /\ last'.name \notin DOMAIN quote_cache) =>
            (last'.code = 0 \/ ~last'.body.cached)
       /\ (/\ last.op = "get_node_quote" /\ last.code = 200 /\ ~last.body.cached
           /\ QuoteAccepted /\ last'.name = last.name
           /\ ~last'.request.force_new
           /\ compute_metrics_hash(nodes_data[last.name])
                 = quote_cache[last.name].metrics_hash)
          => /\ last'.code = 200
             /\ last'.body.cached
             /\ last'.body.quote = last.body.quote
       /\ (/\ QuoteAccepted
           /\ last'.name \in DOMAIN quote_cache
           /\ compute_metrics_hash(nodes_data[last'.name])
                 # quote_cache[last'.name].metrics_hash)
          => (last'.code = 0 \/ ~last'.body.cached)]_vars

\* C10 witness: the provider has just answered a request for Jim made a
\* minute ago, which replaced a fallback text cached before Jim's cpu went
\* from the 50s to 80.
C10_Witness ==
    /\ last.op = "get_node_quote" /\ last.name = Jim /\ last.code = 200
    /\ ~last.body.cached /\ ~last.request.force_new
    /\ last.body.quote = "Bears. Beets. Metrics."
    /\ now = 60
    /\ quote_cache[Jim] =
           QuoteCache("Bears. Beets. Metrics.", 0,
                      compute_metrics_hash(Telemetry80))

(***************************************************************************)
(* Claims checked under SpecLinks.                                         *)
(***************************************************************************)
\* The latencies of the stored samples between the two nodes of a pair
StoredLatencies(pair) ==
    {connections_data[i].value[j].latency_ms :
        <<i, j>> \in {<<i, j>> \in (1..Len(connections_data)) \X (1..3) :
                        /\ j <= Len(connections_data[i].value)
                        /\ {connections_data[i].key,
                            connections_data[i].value[j].target_node} = pair}}

Least(latencies) == CHOOSE l \in latencies : \A m \in latencies : l <= m

\* C11: with deduplication on, the answer of GET /connections has at most one
\* link for a pair of nodes, and its latency is the least among all the
\* samples stored for the pair, in whichever direction and order they came.
C11_OneLinkOfLeastLatency ==
    (last.op = "get_all_connections" /\ DEDUP_CONNECTIONS) =>
        /\ \A i, j \in 1..Len(last.body) :
              i # j => pair_key(last.body[i]) # pair_key(last.body[j])
        /\ \A i \in 1..Len(last.body) :
              last.body[i].latency_ms
                 = Least(StoredLatencies(pair_key(last.body[i])))

\* The links before the cap: all of them, or one for each pair
UncappedLinks ==
    IF DEDUP_CONNECTIONS
    THEN OValues(dedup_into(<<>>, expand_connections(connections_data)))
    ELSE expand_connections(connections_data)

Count(seq, x) == Cardinality({i \in 1..Len(seq) : seq[i] = x})

\* C17: the answer of GET /connections is never longer than MAX_CONNECTIONS.
\* Links that fit under the cap are returned as they are; of more links than
\* that, taken after the deduplication, the answer holds MAX_CONNECTIONS in
\* ascending order of latency, and no link left out has a lower latency than
\* one returned.
C17_CapKeepsLowestLatency ==
    last.op = "get_all_connections" =>
        /\ Len(last.body) <= MAX_CONNECTIONS
        /\ Len(UncappedLinks) <= MAX_CONNECTIONS => last.body = UncappedLinks
        /\ Len(UncappedLinks) > MAX_CONNECTIONS =>
              /\ Len(last.body) = MAX_CONNECTIONS
              /\ \A i \in 1..(Len(last.body) - 1) :
                    last.body[i].latency_ms <= last.body[i + 1].latency_ms
              /\ \A i \in 1..Len(last.body) :
                    Count(last.body, last.body[i])
                       <= Count(UncappedLinks, last.body[i])
              /\ \A i \in 1..Len(UncappedLinks) :
                    Count(last.body, UncappedLinks[i])
                       < Count(UncappedLinks, UncappedLinks[i])
                    => \A j \in 1..Len(last.body) :
                          last.body[j].latency_ms
                             <= UncappedLinks[i].latency_ms

\* C17 witness: under a cap of 2 and with deduplication on, three pairs have
\* links, the first found of latency 20, and the answer holds the two of
\* latency 10 and 12.
C17_Witness ==
    /\ last.op = "get_all_connections"
    /\ DEDUP_CONNECTIONS /\ MAX_CONNECTIONS = 2
    /\ Len(UncappedLinks) = 3
    /\ Len(last.body) = 2
    /\ last.body[1].latency_ms = 10 /\ last.body[2].latency_ms = 12
    /\ UncappedLinks[1].latency_ms = 20

\* C18: every link in the answer of GET /connections carries the lat and lon
\* that the reports of its source and of its target have when the links are
\* read, and no lat and lon for a target without a report; unless the cap
\* cuts the answer, a stored sample of a registered source to such a target
\* has its link there.
C18_CoordinatesAtQueryTime ==
    last.op = "get_all_connections" =>
        /\ \A i \in 1..Len(last.body) :
              LET link == last.body[i]
                  known == link.target_node \in DOMAIN nodes_data
              IN  /\ link.source_node \in DOMAIN nodes_data
                  /\ link.source_lat = nodes_data[link.source_node].lat
                  /\ link.source_lon = nodes_data[link.source_node].lon
                  /\ link.target_lat =
                        IF known THEN nodes_data[link.target_node].lat ELSE None
                  /\ link.target_lon =
                        IF known THEN nodes_data[link.target_node].lon ELSE None
        /\ Len(UncappedLinks) <= MAX_CONNECTIONS =>
              \A k \in 1..Len(connections_data) :
                 \A j \in 1..Len(connections_data[k].value) :
                    LET source == connections_data[k].key
                        target == connections_data[k].value[j].target_node
                    IN  (source \in DOMAIN nodes_data
                         /\ target \notin DOMAIN nodes_data)
                        => \E i \in 1..Len(last.body) :
                              /\ last.body[i].source_node = source
                              /\ last.body[i].target_node = target
                              /\ last.body[i].target_lat = None

\* C18 witness: the links have just been read. Jim's report has lost its
\* place and Pam's has hers; Roy has no report. Jim's link to Pam carries
\* Pam's lat and lon and none for Jim, his link to Roy none for either.
C18_Witness ==
    /\ last.op = "get_all_connections"
    /\ \E i, j \in 1..Len(last.body) :
          /\ last.body[i].source_node = Jim /\ last.body[i].target_node = Pam
          /\ last.body[i].source_lat = None
          /\ last.body[i].target_lat = GeoOf(Pam).lat
          /\ last.body[i].target_lon = GeoOf(Pam).lon
          /\ last.body[j].source_node = Jim /\ last.body[j].target_node = Roy
          /\ last.body[j].target_lat = None /\ last.body[j].target_lon = None

(***************************************************************************)
(* Claims checked under SpecStatus.                                        *)
(***************************************************************************)
\* C12: with node_timeout = 120 every node in the answer of GET /nodes is
\* online when its age is under 60, warning from 60 and under 120, and
\* offline from 120, whatever else its report says.
C12_StatusByAge ==
    (last.op = "get_all_nodes" /\ NODE_TIMEOUT = 120) =>
        \A n \in DOMAIN last.body :
            last.body[n].status =
                IF AgeOf(n) < 60 THEN "online"
                ELSE IF AgeOf(n) < 120 THEN "warning"
                ELSE "offline"

\* C12 witness: the list has just been read under the default timeout. Jim,
\* whose report carries a timestamp far in the future, is 119 seconds old and
\* in warning; Pam is 59 seconds old and online.
C12_Witness ==
    /\ last.op = "get_all_nodes" /\ NODE_TIMEOUT = 120
    /\ DOMAIN last.body = {Jim, Pam}
    /\ AgeOf(Jim) = 119 /\ last.body[Jim].status = "warning"
    /\ nodes_data[Jim].timestamp > now
    /\ AgeOf(Pam) = 59 /\ last.body[Pam].status = "online"

\* C13: under every node_timeout a node is offline in the answer of
\* GET /nodes once its age has reached node_timeout, and is in warning only
\* at an age from 60 and under node_timeout.
C13_OfflineFromTimeout ==
    last.op = "get_all_nodes" =>
        \A n \in DOMAIN last.body :
            /\ AgeOf(n) >= NODE_TIMEOUT => last.body[n].status = "offline"
            /\ last.body[n].status = "warning" =>
                  (60 <= AgeOf(n) /\ AgeOf(n) < NODE_TIMEOUT)

\* C26: the age shown for a node is formed by truncation only: under 60 s
\* "{age}s ago", from 60 s and under 3600 s "{m}m ago" with m the whole
\* minutes of the age, from 3600 s "{h}h ago" with h its whole hours (119 s
\* is "1m ago", 3599 s is "59m ago").
C26_AgeIsTruncated ==
    last.op = "get_all_nodes" =>
        \A n \in DOMAIN last.body :
            LET age == AgeOf(n)
                shown == last.body[n].last_seen
            IN  /\ age < 60 => shown = <<age, "s ago">>
                /\ (60 <= age /\ age < 3600) =>
                       /\ shown[2] = "m ago"
                       /\ shown[1] * 60 <= age
                       /\ age < (shown[1] + 1) * 60
                /\ 3600 <= age =>
                       /\ shown[2] = "h ago"
                       /\ shown[1] * 3600 <= age
                       /\ age < (shown[1] + 1) * 3600

\* The list shows Jim, 3599 seconds old, as "59m ago" and Pam, 59 seconds
\* old, as "59s ago"
C26_Witness ==
    /\ last.op = "get_all_nodes"
    /\ DOMAIN last.body = {Jim, Pam}
    /\ AgeOf(Jim) = 3599 /\ last.body[Jim].last_seen = <<59, "m ago">>
    /\ AgeOf(Pam) = 59 /\ last.body[Pam].last_seen = <<59, "s ago">>

(***************************************************************************)
(* Claims checked under SpecHash.                                          *)
(***************************************************************************)
\* A reading in tenths, 0 when there is none
Reading(x) == IF x = None THEN 0 ELSE x[1]

\* The greatest whole number of widths not above a
Floor(a, width) ==
    IF a >= 0 THEN a \div width ELSE -(((-a) + width - 1) \div width)

\* The buckets of a telemetry snapshot: 10 % of cpu and of memory, 5 degrees,
\* a day, half a unit of load
Buckets(node_data) ==
    [cpu |-> Floor(Reading(node_data.cpu_percent), 100),
     mem |-> Floor(Reading(node_data.memory_percent), 100),
     temp |-> Floor(Reading(node_data.cpu_temp_celsius), 50),
     days |-> Floor(Reading(node_data.uptime_seconds), 864000),
     load |-> Floor(Reading(node_data.load_avg_1m), 5)]

\* The nodes whose cached quote was generated from the report they have now
Quoted == DOMAIN quote_cache \cap DOMAIN nodes_data

\* C19: two snapshots whose readings, with 0 for a missing one, fall into the
\* same buckets have the same fingerprint, and a quote request for a node
\* with missing readings is answered.
C19_SameBucketsSameFingerprint ==
    /\ \A n, m \in Quoted :
          Buckets(nodes_data[n]) = Buckets(nodes_data[m])
          => quote_cache[n].metrics_hash = quote_cache[m].metrics_hash
    /\ (last.op = "get_node_quote" /\ last.name \in DOMAIN nodes_data)
       => (last.code = 200 /\ last.name \in DOMAIN quote_cache)

\* C20: two snapshots that differ in the bucket of one of the five readings
\* have different fingerprints.
C20_OtherBucketsOtherFingerprint ==
    \A n, m \in Quoted :
        Buckets(nodes_data[n]) # Buckets(nodes_data[m])
        => quote_cache[n].metrics_hash # quote_cache[m].metrics_hash


(***************************************************************************)
(* Claims checked under SpecAccess.                                        *)
(***************************************************************************)
\* The texts of lines 54-70 for the three names, and the default of line 666
FallbackText(n) ==
    IF n = Jim THEN "Bears. Beets. Battlestar Galactica."
    ELSE IF n = Pam
    THEN "There's a lot of beauty in ordinary things. Isn't that kind of the point?"
    ELSE "That's what she said."

\* The request for n that read the clock at t and computed the fingerprint h
\* returns the fallback text uncached and stores it under t and h
FellBack(n, t, h) ==
    /\ last'.op = "get_node_quote"
    /\ last'.name = n
    /\ last'.code = 200
    /\ last'.body.quote = FallbackText(n)
    /\ last'.body.cached = FALSE
    /\ n \in DOMAIN quote_cache'
    /\ quote_cache'[n] = QuoteCache(FallbackText(n), t, h)

\* C21: when the provider is not configured, or its call fails, the quote
\* request still succeeds: it returns the static text of the node's character
\* (the lower-cased part of the name before the first '-'), or the default
\* text when the character has none, with cached = false, and stores that
\* text in the quote cache with the request's fingerprint and timestamp.
C21_FallbackOnFailure ==
    [][/\ (~openai_client /\ QuoteMissReturns) =>
              FellBack(last'.name, now,
                       compute_metrics_hash(nodes_data[last'.name]))
       /\ \A i \in 1..Len(pending) :
              resume_node_quote(i, None) =>
                  FellBack(pending[i].node_name, pending[i].current_time,
                           pending[i].metrics_hash)]_vars

\* The provider is configured and fails for roy-2, whose character has no text
C21_Witness ==
    /\ openai_client
    /\ last.op = "get_node_quote"
    /\ last.name = Roy
    /\ last.code = 200
    /\ last.body.quote = "That's what she said."
    /\ ~last.body.cached
    /\ now > 0
    /\ Roy \in DOMAIN quote_cache
    /\ quote_cache[Roy].quote = "That's what she said."
    /\ quote_cache[Roy].generated_at = now

\* The status lines 752-761 ask for, 0 when the request is let through
ExpectedRejection(n, pw) ==
    IF INTERACTIVE_PASSWORD = None \/ INTERACTIVE_PASSWORD = Some("") THEN 503
    ELSE IF INTERACTIVE_PASSWORD # Some(pw) THEN 401
    ELSE IF n \notin DOMAIN nodes_data THEN 404
    ELSE 0

Fresh == {n \in DOMAIN nodes_data : AgeOf(n) < NODE_TIMEOUT}

\* The sum of one telemetry field (in tenths) over some nodes; unset adds 0
RECURSIVE MetricSum(_, _)
MetricSum(names, field) ==
    IF names = {} THEN 0
    ELSE LET n == CHOOSE x \in names : TRUE
             v == nodes_data[n][field]
         IN  (IF v = None THEN 0 ELSE v[1]) + MetricSum(names \ {n}, field)

\* The averages of the result (in hundredths) and the fields they are taken of
Averaged ==
    [avg_cpu_percent |-> "cpu_percent",
     avg_memory_percent |-> "memory_percent",
     avg_disk_percent |-> "disk_percent",
     avg_network_tx_bytes_per_sec |-> "network_tx_bytes_per_sec",
     avg_network_rx_bytes_per_sec |-> "network_rx_bytes_per_sec"]

Distance(a, b) == IF a < b THEN b - a ELSE a - b

\* C23 as claimed: every average of GET /api/stats equals the sum of its
\* metric over the registered nodes younger than node_timeout divided by the
\* number of those nodes, and is 0 when there are none
C23_AverageIsQuotient ==
    last.op = "get_cluster_stats" =>
        \A a \in DOMAIN Averaged :
            IF Fresh = {} THEN last.body[a] = 0
            ELSE last.body[a] * Cardinality(Fresh)
                     = 10 * MetricSum(Fresh, Averaged[a])

\* C23: every average of GET /api/stats is the sum of its metric over the
\* registered nodes younger than node_timeout divided by the number of those
\* nodes, rounded to two decimal places, and 0 when there are none; nodes of
\* age >= node_timeout add to neither the sum nor the count
C23_AverageIsRoundedQuotient ==
    last.op = "get_cluster_stats" =>
        \A a \in DOMAIN Averaged :
            IF Fresh = {} THEN last.body[a] = 0
            ELSE 2 * Distance(last.body[a] * Cardinality(Fresh),
                              10 * MetricSum(Fresh, Averaged[a]))
                     <= Cardinality(Fresh)

\* Statistics over two fresh nodes and one that has reached the timeout
C23_Witness ==
    /\ last.op = "get_cluster_stats"
    /\ Cardinality(Fresh) = 2
    /\ \E n \in DOMAIN nodes_data :
           AgeOf(n) = NODE_TIMEOUT /\ nodes_data[n].cpu_percent = Some(800)
    /\ last.body.avg_cpu_percent = 5100

\* The fresh nodes whose report has a value for the field
Reporting(field) == {n \in Fresh : nodes_data[n][field] # None}

\* C39: every average of GET /api/stats is taken over all online nodes: the
\* values of those that reported the metric are summed and divided by the
\* number of online nodes, those without a value included (to two decimal
\* places).
C39_UnsetCountsAsZero ==
    (last.op = "get_cluster_stats" /\ Fresh # {}) =>
        \A a \in DOMAIN Averaged :
            2 * Distance(last.body[a] * Cardinality(Fresh),
                         10 * MetricSum(Reporting(Averaged[a]), Averaged[a]))
                <= Cardinality(Fresh)

\* Two online nodes, one of them without a value for memory_percent: the
\* average is half of the other's 71.0
C39_Witness ==
    /\ last.op = "get_cluster_stats"
    /\ Cardinality(Fresh) = 2
    /\ Cardinality(Reporting("memory_percent")) = 1
    /\ \E n \in Fresh : nodes_data[n].memory_percent = Some(710)
    /\ last.body.avg_memory_percent = 3550

\* The number of link samples stored across all sources
RECURSIVE SampleCount(_)
SampleCount(od) ==
    IF od = <<>> THEN 0 ELSE Len(Head(od).value) + SampleCount(Tail(od))

\* C24: the total link count of GET /api/stats is the number of link samples
\* stored across all sources (links, not sources that have a list)
C24_CountsLinkSamples ==
    last.op = "get_cluster_stats" =>
        last.body.total_connections = SampleCount(connections_data)

\* C25: in every result of GET /api/stats total_nodes = online_nodes +
\* offline_nodes, online_nodes is the number of registered nodes younger than
\* node_timeout, and the provider histogram counts exactly those nodes
C25_CountsAndProviders ==
    last.op = "get_cluster_stats" =>
        /\ last.body.total_nodes
               = last.body.online_nodes + last.body.offline_nodes
        /\ last.body.total_nodes = Cardinality(DOMAIN nodes_data)
        /\ last.body.online_nodes = Cardinality(Fresh)
        /\ DOMAIN last.body.providers = {nodes_data[n].provider : n \in Fresh}
        /\ \A p \in DOMAIN last.body.providers :
               last.body.providers[p]
                   = Cardinality({n \in Fresh : nodes_data[n].provider = p})

\* Statistics over a fresh node and timed-out ones of two providers
C25_Witness ==
    /\ last.op = "get_cluster_stats"
    /\ last.body.online_nodes = 1
    /\ last.body.offline_nodes = 2
    /\ Cardinality({nodes_data[n].provider : n \in DOMAIN nodes_data}) = 2
    /\ Cardinality(DOMAIN last.body.providers) = 1

(***************************************************************************)
(* Claims checked under SpecBoundary.                                      *)
(***************************************************************************)
\* C27: an Ingest whose logical name is empty is rejected at the boundary and
\* leaves the registry, the link store and the quote cache unchanged; no
\* report is ever stored under the empty name.
C27_EmptyNameRejected ==
    [][/\ (last'.op = "receive_node_data" /\ last'.name = Nameless) =>
              /\ last'.code # 200
              /\ UNCHANGED store
       /\ Nameless \notin DOMAIN nodes_data']_vars

\* The link samples a request supplies: none for no list and for an empty one
Supplied(body) ==
    IF body.connections = None THEN <<>> ELSE body.connections[1]

\* C28: ingestion is all-or-nothing. Every accepted Ingest has, in the state
\* that the next operation sees, stored its report and, when it supplies
\* link samples, its list; a rejected Ingest changes nothing.
C28_IngestAllOrNothing ==
    [][last'.op = "receive_node_data" =>
         LET n == last'.name
             body == last'.request
         IN  IF last'.code = 200
             THEN /\ n \in DOMAIN nodes_data'
                  /\ nodes_data'[n].received_at = now
                  /\ \A f \in TelemetryFields : nodes_data'[n][f] = body[f]
                  /\ Supplied(body) # <<>> =>
                         SamplesOf(connections_data', n) = Supplied(body)
                  /\ Supplied(body) = <<>> => UNCHANGED connections_data
             ELSE UNCHANGED store]_vars

\* A report with sparse telemetry and three link samples has replaced, in one
\* step, a report with full telemetry and one sample
C28_Witness ==
    /\ last.op = "receive_node_data"
    /\ last.code = 200
    /\ last.name = Jim
    /\ now > 0
    /\ nodes_data[Jim].received_at = now
    /\ nodes_data[Jim].cpu_percent = Some(800)
    /\ Len(SamplesOf(connections_data, Jim)) = 3
    /\ Nameless \notin DOMAIN nodes_data

(***************************************************************************)
(* Claims checked under SpecFlight.                                        *)
(***************************************************************************)
QuoteOps == {"get_node_quote", "_generate_quote"}

\* A report of Jim
AReport == NodeData(Jim, IdentitySame, GeoKnown, Telemetry51, 0, None)

C30_NoEntryAfterEviction ==
    [][\A n \in Names :
           (last.op = "get_all_nodes" /\ n \in last.cleaned_up) =>
               /\ n \notin DOMAIN quote_cache
               /\ n \notin DOMAIN quote_cache']_vars

\* C33: in every reachable state every source of the link store and every
\* key of the quote cache is the name of a node that has a report in the
\* registry - also after DELETE /api/nodes/{name}.
C33_StoresNameRegisteredNodes ==
    /\ \A source \in OKeys(connections_data) : source \in DOMAIN nodes_data
    /\ DOMAIN quote_cache \subseteq DOMAIN nodes_data

(***************************************************************************)
(* Claims checked under SpecLive and SpecClock.                            *)
(***************************************************************************)
\* A registered node whose last report is older than timeout + grace
Stale(n) == n \in DOMAIN nodes_data /\ AgeOf(n) > NodeLifeSeconds

\* Once stale, a node does not stay registered and stale for ever
StaleNodesGo == \A n \in Names : Stale(n) ~> ~Stale(n)

\* A node enters the registry by its Ingest only and leaves it by the
\* eviction of a stale node only; the read after an Ingest shows it online
ComesAndGoes ==
    [][\A n \in Names :
          /\ (n \notin DOMAIN nodes_data /\ n \in DOMAIN nodes_data') =>
                 (last'.op = "receive_node_data" /\ last'.name = n)
          /\ (n \in DOMAIN nodes_data /\ n \notin DOMAIN nodes_data') =>
                 (last'.op = "get_all_nodes" /\ Stale(n))
          /\ (/\ last.op = "receive_node_data"
              /\ last.name = n
              /\ last'.op = "get_all_nodes") =>
                 (n \in DOMAIN last'.body /\ last'.body[n].status = "online")
       ]_vars

\* C31: a node that is no longer reported is, once its age has passed
\* node_timeout + cleanup_grace_period and while GET /nodes keeps being
\* requested, eventually evicted; it then stays absent until it is ingested
\* again; a node leaves the registry only when its last Ingest is more than
\* node_timeout + cleanup_grace_period old; and a read that directly follows
\* an Ingest shows that node online, whatever it was before.
C31_EvictedEventually == StaleNodesGo /\ ComesAndGoes

\* A read, a node's life and a minute after Pam reported, evicts Pam and
\* shows Jim, who has just reported again from a new address, online
C31_Witness ==
    /\ last.op = "get_all_nodes"
    /\ last.cleaned_up = {Pam}
    /\ now > NodeLifeSeconds
    /\ DOMAIN last.body = {Jim}
    /\ AgeOf(Jim) = 0
    /\ nodes_data[Jim].internal_ip = Some("10.0.0.2")
    /\ nodes_data[Jim].lat # None
    /\ last.body[Jim].status = "online"

(***************************************************************************)
(* Claims checked under SpecEnv.                                           *)
(***************************************************************************)
\* The settings whose loader has run when the import stands at 'op'
LoadedAt(op) ==
    CASE op = "_load_node_timeout" -> {NODE_TIMEOUT_ENV_VAR}
      [] op = "_load_cleanup_grace_period" ->
            {NODE_TIMEOUT_ENV_VAR, CLEANUP_GRACE_PERIOD_ENV_VAR}
      [] op = "_load_max_connections" -> EnvVars
      [] OTHER -> {}

SettingOf(name) ==
    CASE name = NODE_TIMEOUT_ENV_VAR -> NODE_TIMEOUT
      [] name = CLEANUP_GRACE_PERIOD_ENV_VAR -> CLEANUP_GRACE_PERIOD
      [] name = MAX_CONNECTIONS_ENV_VAR -> MAX_CONNECTIONS

DocumentedDefault(name) ==
    CASE name = NODE_TIMEOUT_ENV_VAR -> 120
      [] name = CLEANUP_GRACE_PERIOD_ENV_VAR -> 86400
      [] name = MAX_CONNECTIONS_ENV_VAR -> 500

ParsesAsPositive(raw) ==
    /\ raw # None
    /\ int(raw[1]) # None
    /\ int(raw[1])[1] > 0

\* C32: each numeric setting loader gives the value of the environment when
\* that value parses as a positive integer and the documented default when
\* the variable is unset, not a number, zero or negative; the loader always
\* returns, and what it returns is a positive integer.
C32_LoadersFallBack ==
    /\ \A name \in LoadedAt(last.op) :
          LET raw == last.request[name]
          IN  /\ SettingOf(name) \in Nat \ {0}
              /\ ParsesAsPositive(raw) => SettingOf(name) = int(raw[1])[1]
              /\ ~ParsesAsPositive(raw) =>
                     SettingOf(name) = DocumentedDefault(name)
    /\ last.op = "environ" => ENABLED LoadNodeTimeout
    /\ last.op = "_load_node_timeout" => ENABLED LoadCleanupGracePeriod
    /\ last.op = "_load_cleanup_grace_period" => ENABLED LoadMaxConnections

C32_Witness ==
    /\ last.op = "_load_max_connections"
    /\ last.request[NODE_TIMEOUT_ENV_VAR] = Some(<<"-", "5">>)
    /\ last.request[CLEANUP_GRACE_PERIOD_ENV_VAR] = Some(<<"3", "6", "0", "0">>)
    /\ last.request[MAX_CONNECTIONS_ENV_VAR] =
           Some(<<"n", "o", "t", "-", "a", "-", "n", "u", "m", "b", "e", "r">>)
    /\ NODE_TIMEOUT = 120
    /\ CLEANUP_GRACE_PERIOD = 3600
    /\ MAX_CONNECTIONS = 500

\* A value with blanks around it, a sign and an underscore is a number too
C32_WitnessLiteral ==
    /\ last.op = "_load_max_connections"
    /\ last.request[MAX_CONNECTIONS_ENV_VAR] = Some(<<"3", "_", "0">>)
    /\ MAX_CONNECTIONS = 30

(***************************************************************************)
(* Claims checked under SpecFrame.                                         *)
(***************************************************************************)
\* The link store without the list of source n, in its order
OtherSources(od, n) ==
    LET IsOther(entry) == entry.key # n IN SelectSeq(od, IsOther)

\* C34: an Ingest for the name N changes only N's report and N's own link
\* list: the reports of the other nodes, the lists of the other sources and
\* the whole quote cache, N's own entry included, are as before - also when
\* the report is taken for a replacement.
C34_IngestFrame ==
    [][(last'.op = "receive_node_data" /\ last'.code = 200) =>
          LET n == last'.name
          IN  /\ DOMAIN nodes_data' \ {n} = DOMAIN nodes_data \ {n}
              /\ \A m \in DOMAIN nodes_data \ {n} :
                    nodes_data'[m] = nodes_data[m]
              /\ OtherSources(connections_data', n)
                    = OtherSources(connections_data, n)
              /\ quote_cache' = quote_cache
              /\ pending' = pending
       ]_vars

\* A replacement of Jim-1 (the place of the old node was filled in) while
\* Jim-1 has a cached quote and pam has a report, a link list and a quote
C34_Witness ==
    /\ last.op = "receive_node_data"
    /\ last.name = Jim
    /\ last.request.internal_ip = Some("10.0.0.2")
    /\ last.request.lat = None
    /\ nodes_data[Jim].lat # None
    /\ Jim \in DOMAIN quote_cache
    /\ Pam \in DOMAIN nodes_data
    /\ Pam \in OKeys(connections_data)
    /\ Pam \in DOMAIN quote_cache

(***************************************************************************)
(* Claims checked under SpecClock.                                         *)
(***************************************************************************)
\* Two registered nodes whose reports came in at the same time
SameStamp(m, n) == nodes_data[m].received_at = nodes_data[n].received_at

\* C35: what a stored node is taken for - online, warning or offline in the
\* node list, due for eviction, counted as online in the statistics - is
\* settled by the received_at the registry gave it: two nodes with the same
\* received_at fare alike whatever timestamps their reporters sent, and the
\* statistics count the nodes whose received_at is less than the timeout ago.
C35_OnlyReceivedAtCounts ==
    [][/\ last'.op = "get_all_nodes" =>
             \A m, n \in DOMAIN nodes_data :
                 SameStamp(m, n) =>
                     /\ m \in last'.cleaned_up <=> n \in last'.cleaned_up
                     /\ m \in DOMAIN last'.body =>
                            /\ n \in DOMAIN last'.body
                            /\ last'.body[m].status = last'.body[n].status
       /\ last'.op = "get_cluster_stats" =>
             last'.body.online_nodes =
                 Cardinality({n \in DOMAIN nodes_data :
                                 now - nodes_data[n].received_at < NODE_TIMEOUT})
      ]_vars

\* One report stamped 0 by its reporter and one stamped 999999, received at
\* the same time and both listed as 'warning' a minute later
C35_Witness ==
    /\ last.op = "get_all_nodes"
    /\ DOMAIN nodes_data = {Jim, Pam}
    /\ nodes_data[Jim].timestamp = 0
    /\ nodes_data[Pam].timestamp = 999999
    /\ nodes_data[Jim].received_at = nodes_data[Pam].received_at
    /\ now - nodes_data[Jim].received_at = 60
    /\ last.body[Jim].status = "warning"
    /\ last.body[Pam].status = "warning"

(***************************************************************************)
(* Claims checked under SpecQuote: a report during the provider call.      *)
(***************************************************************************)
\* The step in which a quote request returns a text it has just generated,
\* and the snapshots of telemetry that were handed to the generation
Snapshot(n) ==
    IF Len(pending') < Len(pending)
    THEN {pending[i].node_data : i \in {j \in 1..Len(pending) :
                                           /\ pending[j].node_name = n
                                           /\ pending[j].request = last'.request}}
    ELSE {nodes_data[n]}

\* C37: the fingerprint of a cache entry is the fingerprint of the telemetry
\* the entry's text was generated from, also when a report replaced the
\* node's telemetry during the provider call; and a request that is not
\* forced and finds an entry whose fingerprint is not that of the node's
\* telemetry now does not answer from the cache.
C37_EntryOfItsSnapshot ==
    [][/\ QuoteMissReturns =>
             \E node_data \in Snapshot(last'.name) :
                 quote_cache'[last'.name].metrics_hash
                     = compute_metrics_hash(node_data)
       /\ (/\ QuoteAccepted
           /\ ~last'.request.force_new
           /\ last'.name \in DOMAIN quote_cache
           /\ quote_cache[last'.name].metrics_hash
                  # compute_metrics_hash(nodes_data[last'.name])) =>
             \/ last'.op = "_generate_quote"
             \/ ~last'.body.cached
      ]_vars

\* The provider has answered a request for Jim-1 whose telemetry was
\* replaced during the call: the entry has the fingerprint of the old
\* telemetry, and the next request will be a miss
C37_Witness ==
    /\ last.op = "get_node_quote"
    /\ last.name = Jim
    /\ last.code = 200
    /\ ~last.body.cached
    /\ openai_client
    /\ Jim \in DOMAIN nodes_data
    /\ quote_cache[Jim].quote = "Bears. Beets. Metrics."
    /\ quote_cache[Jim].metrics_hash # compute_metrics_hash(nodes_data[Jim])

(***************************************************************************)
(* Claims checked under Spec: the empty list of link samples.              *)
(***************************************************************************)
\* The same request body without its list of link samples
WithoutList(body) == [body EXCEPT !.connections = None]

=============================================================================
